---------------------------- MODULE Spec2Model ----------------------------
(***************************************************************************)
(* State-machine model of the chat-rs real-time fan-out pipeline:          *)
(*   - the consistent shard router (outbound/events/topic.rs),             *)
(*   - the sharded producer and the fan-out consumer                       *)
(*     (outbound/events/producer.rs, consumer.rs),                         *)
(*   - the message write path (domain/message/service.rs and the           *)
(*     Cassandra repository),                                              *)
(*   - the connection registry and the websocket session                  *)
(*     (inbound/websocket/registry.rs, handler.rs).                        *)
(***************************************************************************)
EXTENDS Integers, Sequences, FiniteSets, TLC

(***************************************************************************)
(* Bounds of the model.                                                    *)
(***************************************************************************)
\* width of the 64-bit hash, scaled down
U64Bits == 12
\* width of u32 (the `as u32` truncation and num_shards), scaled down
U32Bits == 6
\* largest num_shards tried by the shard-router specification
MaxNumShards == 9
\* largest channel uuid tried by the shard-router specification
MaxChannelUuid == 7
\* number of publish calls in the shard-router specification
MaxShardPublishes == 2
\* number of send_message calls in the system specification
MaxSends == 2
\* largest reading of the wall clock (100 ns ticks of the v1 uuid)
MaxClock == 1
\* number of registry API calls in the registry specification
MaxRegistryCalls == 4
\* number of records other producers put on the bus in the consumer specification
MaxBusRecords == 2
\* number of records put on the two buses in the consumer-loop specification
MaxLoopRecords == 3

(***************************************************************************)
(* Universes.                                                              *)
(***************************************************************************)
Instances == {"I1", "I2"}
Conns == {"k1", "k2"}
Channels == {1, 2}
Users == {"uA", "uB"}
GroupIds == {"chat-service", "chat-service-b"}
Prefixes == {"", "chat.messages"}
NoValue == "none"

\* the instance that terminates each websocket session and the user its token names
ConnInstance(k) == IF k = "k1" THEN "I1" ELSE "I2"
ConnUser(k) == IF k = "k1" THEN "uA" ELSE "uB"
ConnContent(k) == IF k = "k1" THEN "hi" ELSE "yo"

VARIABLES
    sharder,              \* Result<TopicSharder, ShardingError> built from the configuration
    group_id,             \* kafka.group_id of each instance's configuration
    assignment,           \* broker: topic -> (consumer group -> the member that owns its partition)
    log,                  \* broker: topic name -> sequence of published envelopes
    offset,               \* fan-out consumer position: instance -> topic -> count consumed
    consumer,             \* fan-out consumer task of each instance: [pc, event]
    channels,             \* channel store: ids of the channels that exist
    messages_by_channel,  \* message store table, rows keyed by (channel_id, message_id)
    messages_by_user,     \* message store table, rows keyed by (user_id, message_id)
    now,                  \* wall clock, in ticks
    connections,          \* registry of each instance: connection_id -> Connection
    channel_connections,  \* registry of each instance: channel_id -> Vec<connection_id>
    outq,                 \* frames enqueued on each session's outbound queue, in order
    session,              \* websocket session of each connection id: [pc, channel_id]
    sending,              \* send_message call in flight in each session's reader task
    sends,                \* history: number of send_message calls started
    results,              \* history: outcome of each finished send_message call
    calls,                \* history: publish calls made (shard-router specification)
    regop,                \* registry call in progress on each connection id
    hist,                 \* history of the registry calls (registry specification)
    user_events,          \* the user-events topic: sequence of records
    user_consumer,        \* user events consumer task: [pc, offset, skipped]
    user_replica,         \* user_replica table: user id -> row
    committed,            \* broker: consumer group -> topic -> committed offset (if any)
    started,              \* history of each instance's consumer: [n, published, pos]
    users,                \* identity store, table users: user id -> row
    req,                  \* identity service: the call each request task is in
    minted,               \* identity service: ids UserId::new() has returned
    commits,              \* history: the writes the users table has accepted, in order
    rwlock,               \* registry: the two RwLocks, [readers, writer, queue]
    task                  \* registry: the call each caller task is in

vars == <<sharder, group_id, assignment, log, offset, consumer, channels,
          messages_by_channel, messages_by_user, now, connections,
          channel_connections, outq, session, sending, sends, results, calls,
          regop, hist, user_events, user_consumer, user_replica, committed,
          started, users, req, minted, commits, rwlock, task>>

busVars == <<log, offset, consumer, assignment, group_id>>
storeVars == <<channels, messages_by_channel, messages_by_user, now>>
registryVars == <<connections, channel_connections>>
sessionVars == <<session, sending, sends, results>>
replicaVars == <<user_events, user_consumer, user_replica>>
groupVars == <<committed, started>>
identityVars == <<users, req, minted, commits>>
lockVars == <<rwlock, task>>
auxVars == <<calls, regop, hist, replicaVars, groupVars, identityVars, lockVars>>

(***************************************************************************)
(* Arithmetic helpers.                                                     *)
(***************************************************************************)
RECURSIVE Pow2(_)
Pow2(n) == IF n = 0 THEN 1 ELSE 2 * Pow2(n - 1)

RECURSIVE BitAnd(_, _)
BitAnd(a, b) ==
    IF a = 0 \/ b = 0 THEN 0
    ELSE (a % 2) * (b % 2) + 2 * BitAnd(a \div 2, b \div 2)

\* u32::is_power_of_two
IsPowerOfTwo(n) == n > 0 /\ BitAnd(n, n - 1) = 0

(***************************************************************************)
(* Consistent shard router (topic.rs).                                     *)
(***************************************************************************)
\* TopicSharder::new with the prefix checked before the shard count
TopicSharderNew_PrefixFirst(num_shards, topic_prefix) ==
    IF topic_prefix = "" THEN [ok |-> FALSE, err |-> "EmptyTopicPrefix"]
    ELSE IF num_shards = 0 THEN [ok |-> FALSE, err |-> "ZeroShards"]
    ELSE IF ~IsPowerOfTwo(num_shards) THEN [ok |-> FALSE, err |-> "NotPowerOfTwo"]
    ELSE [ok |-> TRUE, num_shards |-> num_shards, topic_prefix |-> topic_prefix]

\* TopicSharder::new
TopicSharderNew(num_shards, topic_prefix) ==
    IF num_shards = 0 THEN [ok |-> FALSE, err |-> "ZeroShards"]
    ELSE IF ~IsPowerOfTwo(num_shards) THEN [ok |-> FALSE, err |-> "NotPowerOfTwo"]
    ELSE IF topic_prefix = "" THEN [ok |-> FALSE, err |-> "EmptyTopicPrefix"]
    ELSE [ok |-> TRUE, num_shards |-> num_shards, topic_prefix |-> topic_prefix]

\* A hasher seeded from per-process random state (what RandomState would do).
HasherKey_PerProcess(p) == IF p = "I1" THEN 0 ELSE 1
\* DefaultHasher::new(): SipHash-1-3 with the fixed key (0, 0) in every process
HasherKey(p) == 0

\* hasher.finish() after channel_id.hash(): a keyed 64-bit mix of the uuid
Hash64(key, uuid) == ((uuid + key) * 37 + 11 + (uuid \div 2) * 64) % Pow2(U64Bits)

\* Masking with num_shards instead of num_shards - 1.
ComputeShardIndex_MaskN(p, s, channel_id) ==
    BitAnd(Hash64(HasherKey(p), channel_id) % Pow2(U32Bits), s.num_shards)
\* TopicSharder::compute_shard_index: (hash as u32) & (num_shards - 1)
ComputeShardIndex(p, s, channel_id) ==
    BitAnd(Hash64(HasherKey(p), channel_id) % Pow2(U32Bits), s.num_shards - 1)

\* format!("{}.{}", prefix, index)
TopicName(prefix, index) == <<prefix, index>>

\* TopicSharder::get_shard_for_channel, evaluated in process p
GetShardForChannel(p, s, channel_id) ==
    TopicName(s.topic_prefix, ComputeShardIndex(p, s, channel_id))

\* TopicSharder::get_all_shards
GetAllShards(s) == {TopicName(s.topic_prefix, i) : i \in 0..(s.num_shards - 1)}


(***************************************************************************)
(* Maps with a growing domain (HashMap).                                   *)
(***************************************************************************)
EmptyMap == [x \in {} |-> NoValue]
MapInsert(m, k, v) == [x \in (DOMAIN m) \cup {k} |-> IF x = k THEN v ELSE m[x]]
MapRemove(m, k) == [x \in (DOMAIN m) \ {k} |-> m[x]]
SeqToSet(s) == {s[i] : i \in 1..Len(s)}
Min(a, b) == IF a < b THEN a ELSE b

(***************************************************************************)
(* Connection registry (registry.rs).  Each operator is one critical       *)
(* section, i.e. what the call does while it holds one lock guard.         *)
(***************************************************************************)
\* add_connection, first guard: connections.write().insert(connection_id, connection)
AddInsert(conns, connection_id, user_id, channel_id, sender) ==
    MapInsert(conns, connection_id,
              [user_id |-> user_id, channel_id |-> channel_id, sender |-> sender])

\* An index that forgets the ids already listed for the channel.
AddIndex_Overwrite(chan_conns, connection_id, channel_id) ==
    MapInsert(chan_conns, channel_id, <<connection_id>>)
\* add_connection, second guard:
\* channel_connections.write().entry(channel_id).or_insert_with(Vec::new).push(connection_id)
AddIndex(chan_conns, connection_id, channel_id) ==
    LET old == IF channel_id \in DOMAIN chan_conns THEN chan_conns[channel_id] ELSE <<>>
    IN  MapInsert(chan_conns, channel_id, Append(old, connection_id))

\* remove_connection, first guard: connections.write().remove(&connection_id)
RemoveEntry(conns, connection_id) == MapRemove(conns, connection_id)

\* Leaving the channel index as it is.
RemoveIndex_Keep(chan_conns, connection_id, channel_id) == chan_conns

\* remove_connection, second guard: retain the other ids, drop an empty channel entry
RemoveIndex(chan_conns, connection_id, channel_id) ==
    IF channel_id \in DOMAIN chan_conns
    THEN LET kept == SelectSeq(chan_conns[channel_id], LAMBDA id : id # connection_id)
         IN  IF kept = <<>> THEN MapRemove(chan_conns, channel_id)
             ELSE MapInsert(chan_conns, channel_id, kept)
    ELSE chan_conns

\* get_channel_connection_count
GetChannelConnectionCount(chan_conns, channel_id) ==
    IF channel_id \in DOMAIN chan_conns THEN Len(chan_conns[channel_id]) ELSE 0

\* conn.sender.send(message): Err when the receiving half was dropped
SenderSend(q, open, sender, message) ==
    IF sender \in open THEN [q EXCEPT ![sender] = Append(@, message)] ELSE q

\* the for loop of broadcast_to_channel over the ids listed for the channel
RECURSIVE BroadcastLoop(_, _, _, _, _)
BroadcastLoop(conn_ids, conns, q, open, message) ==
    IF conn_ids = <<>> THEN q
    ELSE LET id == Head(conn_ids)
             q1 == IF id \in DOMAIN conns
                   THEN SenderSend(q, open, conns[id].sender, message)
                   ELSE q
         IN  BroadcastLoop(Tail(conn_ids), conns, q1, open, message)

\* Enqueuing on every registered connection, whatever its channel.
BroadcastToChannel_All(conns, chan_conns, q, open, channel_id, message) ==
    [k \in DOMAIN q |->
        IF k \in open /\ \E id \in DOMAIN conns : conns[id].sender = k
        THEN Append(q[k], message) ELSE q[k]]
\* Giving up the whole broadcast when a listed id has no connections entry.
BroadcastToChannel_AllOrNothing(conns, chan_conns, q, open, channel_id, message) ==
    IF /\ channel_id \in DOMAIN chan_conns
       /\ \A n \in 1..Len(chan_conns[channel_id]) : chan_conns[channel_id][n] \in DOMAIN conns
    THEN BroadcastLoop(chan_conns[channel_id], conns, q, open, message)
    ELSE q

\* broadcast_to_channel, under both read guards
BroadcastToChannel(conns, chan_conns, q, open, channel_id, message) ==
    IF channel_id \in DOMAIN chan_conns
    THEN BroadcastLoop(chan_conns[channel_id], conns, q, open, message)
    ELSE q

(***************************************************************************)
(* Message store (repositories/message.rs).                                *)
(***************************************************************************)
\* INSERT INTO messages_by_channel: an upsert on PRIMARY KEY (channel_id, message_id)
InsertByChannel(rows, m) ==
    {r \in rows : ~(r.channel_id = m.channel_id /\ r.id = m.id)} \cup {m}

\* INSERT INTO messages_by_user: an upsert on PRIMARY KEY (user_id, message_id)
InsertByUser(rows, m) ==
    {r \in rows : ~(r.user_id = m.user_id /\ r.id = m.id)} \cup {m}

\* CLUSTERING ORDER BY (message_id DESC)
RECURSIVE ClusteringOrder(_)
ClusteringOrder(rows) ==
    IF rows = {} THEN <<>>
    ELSE LET top == CHOOSE r \in rows : \A o \in rows : o.id <= r.id
         IN  <<top>> \o ClusteringOrder(rows \ {top})

\* find_by_channel: WHERE channel_id = ? [AND message_id < maxTimeuuid(before)] LIMIT ?
\* before is an Option (<<>> or <<t>>); maxTimeuuid(t) is above every timeuuid
\* this program mints at instant t (node id 0, clock sequence 0)
FindByChannel(rows, channel_id, limit, before) ==
    LET part == {r \in rows : r.channel_id = channel_id}
        sel  == IF before = <<>> THEN part ELSE {r \in part : r.id <= before[1]}
        ord  == ClusteringOrder(sel)
    IN  SubSeq(ord, 1, Min(limit, Len(ord)))


(***************************************************************************)
(* Wire formats (outbound/events/messages.rs, inbound/websocket/messages.rs)*)
(***************************************************************************)
\* Uuid Display / to_string
UuidToString(u) == <<"uuid", u>>
\* Uuid::parse_str behind ChannelId/MessageId/UserId::from_string
ParseUuid(s) == IF Len(s) = 2 /\ s[1] = "uuid" THEN [ok |-> TRUE, id |-> s[2]]
                ELSE [ok |-> FALSE]

\* MessageSentEvent::new followed by MessageSentMessage::from and the envelope;
\* seq is a history tag: the record's rank in the order of publication
MessageSentEnvelope(event_id, seq, m) ==
    [event_type |-> "message_sent",
     event_id   |-> event_id,
     seq        |-> seq,
     message_id |-> UuidToString(m.id),
     channel_id |-> UuidToString(m.channel_id),
     user_id    |-> UuidToString(m.user_id),
     content    |-> m.content,
     timestamp  |-> m.timestamp]

\* ServerMessage::NewMessage built by broadcast_message; of_event is a history
\* tag naming the envelope the frame was built from
NewMessageFrame(e) ==
    [type |-> "new_message", id |-> ParseUuid(e.message_id).id,
     user_id |-> ParseUuid(e.user_id).id, content |-> e.content,
     timestamp |-> e.timestamp, of_event |-> e.event_id]
ConnectedFrame(channel_id) == [type |-> "connected", channel_id |-> channel_id]
ErrorFrame(message) == [type |-> "error", message |-> message]

(***************************************************************************)
(* Sharded producer (producer.rs).                                         *)
(***************************************************************************)
\* Choosing the shard from the record key (the message id), not the channel.
PublishEvent_ByMessageKey(p, s, topics, channel_id, envelope) ==
    LET topic == GetShardForChannel(p, s, ParseUuid(envelope.message_id).id)
        old   == IF topic \in DOMAIN topics THEN topics[topic] ELSE <<>>
    IN  MapInsert(topics, topic, Append(old, envelope))

\* KafkaEventProducer::publish_event when the broker acknowledges the record:
\* the record is appended to the topic of the channel's shard
PublishEvent(p, s, topics, channel_id, envelope) ==
    LET topic == GetShardForChannel(p, s, channel_id)
        old   == IF topic \in DOMAIN topics THEN topics[topic] ELSE <<>>
    IN  MapInsert(topics, topic, Append(old, envelope))

\* history: the records of all topics, and how many were published so far
Records(topics) == UNION {SeqToSet(topics[t]) : t \in DOMAIN topics}
PublishedCount(topics) == Cardinality(Records(topics))

(***************************************************************************)
(* Message service write path (domain/message/service.rs).                 *)
(***************************************************************************)
\* Publishing before the message is persisted.
SendSteps_PublishFirst == <<"publish", "insert_by_channel", "insert_by_user">>
\* send_message after the channel check: create (two inserts), then publish
SendSteps == <<"insert_by_channel", "insert_by_user", "publish">>

\* Skipping the existence check.
FindChannel_NoCheck(chs, channel_id) == "found"
\* find_by_id(channel_id)?.ok_or(ChannelNotFound)
FindChannel(chs, channel_id) ==
    IF channel_id \in chs THEN "found" ELSE "ChannelNotFound"

\* Propagating the publish error with `?`.
OnPublishError_Propagate == "PublishFailed"
\* if let Err(e) = publish_message_sent(..) { log } ... Ok(saved_message)
OnPublishError == "Ok"

Idle == [step |-> 0, sid |-> 0, msg |-> NoValue, existed |-> FALSE,
         stored |-> "none", published |-> "none", audience |-> {}]
Open == {k \in DOMAIN session : session[k].rx}
\* the reader task of the session has neither finished nor been aborted
ReaderRunning(k) == session[k].pc \in {"active", "writer_ended"}
IsSending(k) == sending[k].step > 0

\* send_message returns to process_client_message, which turns an Err into an
\* error frame on the sender's own queue; rec is the call's final record
Return(k, rec, status) ==
    /\ results' = MapInsert(results, rec.sid,
                            [conn |-> k, status |-> status,
                             channel_id |-> session[k].channel_id,
                             msg |-> rec.msg,
                             existed |-> rec.existed,
                             stored |-> rec.stored,
                             published |-> rec.published,
                             audience |-> rec.audience])
    /\ sending' = [sending EXCEPT ![k] = Idle]
    /\ outq' = IF status = "Ok" THEN outq
               ELSE SenderSend(outq, Open, k, ErrorFrame(status))

\* the call goes on to its next await, or returns Ok(saved_message) after the last
AfterStep(k, rec) ==
    IF rec.step = Len(SendSteps)
    THEN Return(k, rec, "Ok")
    ELSE /\ sending' = [sending EXCEPT ![k] = [rec EXCEPT !.step = @ + 1]]
         /\ UNCHANGED <<results, outq>>

\* send_message up to its first await on the message store: it checks the
\* channel and constructs the Message (MessageId::new_time_based and Utc::now
\* read the clock)
SendMessage(k, content) ==
    /\ ReaderRunning(k)
    /\ ~IsSending(k)
    /\ sends < MaxSends
    /\ sends' = sends + 1
    /\ LET ch   == session[k].channel_id
           rec0 == [Idle EXCEPT !.sid = sends + 1, !.existed = (ch \in channels)]
       IN  \/ /\ Return(k, rec0, "DatabaseError")
              /\ UNCHANGED now
           \/ /\ FindChannel(channels, ch) # "found"
              /\ Return(k, rec0, FindChannel(channels, ch))
              /\ UNCHANGED now
           \/ /\ FindChannel(channels, ch) = "found"
              /\ \E t \in {now, now + 1} :
                    /\ t <= MaxClock
                    /\ now' = t
                    /\ sending' = [sending EXCEPT ![k] =
                          [rec0 EXCEPT !.step = 1,
                                       !.msg = [id |-> t, channel_id |-> ch,
                                                user_id |-> ConnUser(k),
                                                content |-> content,
                                                timestamp |-> t]]]
              /\ UNCHANGED <<results, outq>>
    /\ UNCHANGED <<sharder, busVars, channels, messages_by_channel,
                   messages_by_user, registryVars, session, auxVars>>

\* reader task: a send_message frame with valid content arrives and
\* process_client_message calls send_message
ClientSendMessage(k) == SendMessage(k, ConnContent(k))

AtStep(k, name) ==
    /\ ReaderRunning(k)
    /\ IsSending(k)
    /\ SendSteps[sending[k].step] = name

\* MessageRepository::create, first INSERT (messages_by_channel)
SendInsertByChannel(k) ==
    /\ AtStep(k, "insert_by_channel")
    /\ \/ /\ messages_by_channel' = InsertByChannel(messages_by_channel, sending[k].msg)
          /\ AfterStep(k, [sending[k] EXCEPT !.stored = "partial"])
       \/ /\ Return(k, [sending[k] EXCEPT !.stored = "failed"], "DatabaseError")
          /\ UNCHANGED messages_by_channel
    /\ UNCHANGED <<sharder, busVars, channels, messages_by_user, now,
                   registryVars, session, sends, auxVars>>

\* MessageRepository::create, second INSERT (messages_by_user)
SendInsertByUser(k) ==
    /\ AtStep(k, "insert_by_user")
    /\ \/ /\ messages_by_user' = InsertByUser(messages_by_user, sending[k].msg)
          /\ AfterStep(k, [sending[k] EXCEPT !.stored = "ok"])
       \/ /\ Return(k, [sending[k] EXCEPT !.stored = "failed"], "DatabaseError")
          /\ UNCHANGED messages_by_user
    /\ UNCHANGED <<sharder, busVars, channels, messages_by_channel, now,
                   registryVars, session, sends, auxVars>>

\* history: the sessions registered for the channel when the event is published
Audience(channel_id) ==
    {b \in DOMAIN session :
        session[b].pc = "active" /\ session[b].channel_id = channel_id}

\* publish_message_sent: the broker appends and acknowledges, or the send fails
SendPublish(k) ==
    /\ AtStep(k, "publish")
    /\ \/ /\ log' = PublishEvent(ConnInstance(k), sharder, log,
                                 sending[k].msg.channel_id,
                                 MessageSentEnvelope(sending[k].sid,
                                                     PublishedCount(log) + 1,
                                                     sending[k].msg))
          /\ AfterStep(k, [sending[k] EXCEPT !.published = "ok",
                                              !.audience = Audience(sending[k].msg.channel_id)])
       \/ /\ UNCHANGED log
          /\ IF OnPublishError = "Ok"
             THEN AfterStep(k, [sending[k] EXCEPT !.published = "failed"])
             ELSE Return(k, [sending[k] EXCEPT !.published = "failed"], OnPublishError)
    /\ UNCHANGED <<sharder, offset, consumer, assignment, group_id, storeVars,
                   registryVars, session, sends, auxVars>>

(***************************************************************************)
(* Websocket session (inbound/websocket/handler.rs, handle_socket), with   *)
(* each registry call taken as a whole; the registry specification below   *)
(* takes the same calls one lock guard at a time.                          *)
(***************************************************************************)
NoSession == [pc |-> "none", channel_id |-> 0, rx |-> FALSE]
\* no registry call in progress on a connection id
NoCall == [op |-> "none", channel_id |-> 0]
\* history of the registry calls: how many, the ids added so far, whether an id
\* was added twice, and the last call started
NoHist == [n |-> 0, added |-> {}, dup |-> FALSE,
           last |-> [op |-> "none", id |-> NoValue, channel_id |-> 0]]

\* add_connection: both guards in turn
AddConnection(conns, chan_conns, connection_id, user_id, channel_id, sender) ==
    [connections |-> AddInsert(conns, connection_id, user_id, channel_id, sender),
     channel_connections |-> AddIndex(chan_conns, connection_id, channel_id)]

\* remove_connection: the index is touched only when the entry was present
RemoveConnection(conns, chan_conns, connection_id) ==
    [connections |-> RemoveEntry(conns, connection_id),
     channel_connections |->
        IF connection_id \in DOMAIN conns
        THEN RemoveIndex(chan_conns, connection_id, conns[connection_id].channel_id)
        ELSE chan_conns]

\* websocket_handler accepts the upgrade for channel ch; handle_socket mints the
\* connection id, creates the outbound queue, registers the connection, enqueues
\* Connected{channel_id} and spawns the writer and reader tasks
Upgrade(k, ch) ==
    /\ session[k].pc = "none"
    /\ session' = [session EXCEPT ![k] = [pc |-> "active", channel_id |-> ch, rx |-> TRUE]]
    /\ LET i == ConnInstance(k)
           r == AddConnection(connections[i], channel_connections[i], k, ConnUser(k), ch, k)
       IN  /\ connections' = [connections EXCEPT ![i] = r.connections]
           /\ channel_connections' = [channel_connections EXCEPT ![i] = r.channel_connections]
    /\ outq' = [outq EXCEPT ![k] = Append(@, ConnectedFrame(ch))]
    /\ UNCHANGED <<sharder, busVars, storeVars, sending, sends, results, auxVars>>

\* either task of the session ends (transport error, close or stream end); select!
\* aborts the other, which cancels a send_message call in flight and drops the
\* receiver; remove_connection follows
Close(k) ==
    /\ session[k].pc = "active"
    /\ session' = [session EXCEPT ![k].pc = "closed", ![k].rx = FALSE]
    /\ sending' = [sending EXCEPT ![k] = Idle]
    /\ LET i == ConnInstance(k)
           r == RemoveConnection(connections[i], channel_connections[i], k)
       IN  /\ connections' = [connections EXCEPT ![i] = r.connections]
           /\ channel_connections' = [channel_connections EXCEPT ![i] = r.channel_connections]
    /\ UNCHANGED <<sharder, busVars, storeVars, outq, sends, results, auxVars>>

(***************************************************************************)
(* Channel store (ChannelService::create).                                 *)
(***************************************************************************)
CreateChannel(ch) ==
    /\ ch \notin channels
    /\ channels' = channels \cup {ch}
    /\ UNCHANGED <<sharder, busVars, messages_by_channel, messages_by_user, now,
                   registryVars, outq, sessionVars, auxVars>>

(***************************************************************************)
(* Fan-out consumer (outbound/events/consumer.rs).                         *)
(***************************************************************************)
Polling == [pc |-> "poll", channel_id |-> 0, frame |-> [type |-> "none"]]

\* the broker hands a partition to one member of each consumer group
Assigned(i, topic) == assignment[topic][group_id[i]] = i

\* KafkaEventConsumer::new subscribes to get_all_shards()
Subscribed(i) == GetAllShards(sharder)

\* Broadcasting without asking the registry first.
LocalCount_Skip(i, channel_id) == 1
\* connection_manager.get_channel_connection_count(channel_id)
LocalCount(i, channel_id) ==
    GetChannelConnectionCount(channel_connections[i], channel_id)

\* Leaving the loop on the first error.
OnProcessError_Break == "halted"
\* start_consuming: if let Err(e) = process_message(result).await { log, back off
\* on a KafkaError } and the while loop goes on
OnProcessError == "poll"

\* the variants of ChatEventMessage, tagged by event_type in snake_case
ChatEventTypes ==
    {"message_sent", "channel_created", "user_joined_channel", "user_left_channel"}

\* process_message up to handle_event: message.payload().ok_or(NoPayload)?,
\* from_utf8(payload)?, serde_json::from_str(json)?; a record of the log is the
\* envelope its payload encodes, or garbage
ProcessMessage(r, event_types) ==
    IF "garbage" \in DOMAIN r
    THEN CASE r.garbage = "no_payload" -> "NoPayload"
           [] r.garbage = "bad_utf8" -> "Utf8Error"
           [] OTHER -> "DeserializationError"
    ELSE IF r.event_type \notin event_types THEN "DeserializationError"
    ELSE "ok"

\* message_stream.next() yields the next record of an assigned topic;
\* process_message -> handle_event -> broadcast_message up to the registry filter
ConsumerPoll(i, topic) ==
    /\ consumer[i].pc = "poll"
    /\ topic \in Subscribed(i) \cap DOMAIN log
    /\ Assigned(i, topic)
    /\ offset[i][topic] < Len(log[topic])
    /\ offset' = [offset EXCEPT ![i][topic] = @ + 1]
    /\ LET e  == log[topic][offset[i][topic] + 1]
           ch == ParseUuid(e.channel_id)
       IN  consumer' = [consumer EXCEPT ![i] =
              IF ProcessMessage(e, ChatEventTypes) # "ok"
              THEN [Polling EXCEPT !.pc = OnProcessError]
              ELSE IF e.event_type # "message_sent" \/ ~ch.ok THEN Polling
              ELSE IF LocalCount(i, ch.id) = 0 THEN Polling
              ELSE IF ~ParseUuid(e.message_id).ok \/ ~ParseUuid(e.user_id).ok THEN Polling
              ELSE [pc |-> "broadcast", channel_id |-> ch.id, frame |-> NewMessageFrame(e)]]
    /\ UNCHANGED <<sharder, log, assignment, group_id, storeVars, registryVars,
                   outq, sessionVars, auxVars>>

\* message_stream.next() yields Err(KafkaError): process_message returns it, the
\* loop logs it and sleeps 100 ms
ConsumerKafkaError(i) ==
    /\ consumer[i].pc = "poll"
    /\ consumer' = [consumer EXCEPT ![i].pc =
                       IF OnProcessError = "poll" THEN "backoff" ELSE OnProcessError]
    /\ UNCHANGED <<sharder, log, offset, assignment, group_id, storeVars, registryVars,
                   outq, sessionVars, auxVars>>

\* the sleep ends and the loop polls again
ConsumerWake(i) ==
    /\ consumer[i].pc = "backoff"
    /\ consumer' = [consumer EXCEPT ![i].pc = "poll"]
    /\ UNCHANGED <<sharder, log, offset, assignment, group_id, storeVars, registryVars,
                   outq, sessionVars, auxVars>>

\* connection_manager.broadcast_to_channel(channel_id, ws_message)
ConsumerBroadcast(i) ==
    /\ consumer[i].pc = "broadcast"
    /\ outq' = BroadcastToChannel(connections[i], channel_connections[i], outq, Open,
                                  consumer[i].channel_id, consumer[i].frame)
    /\ consumer' = [consumer EXCEPT ![i] = Polling]
    /\ UNCHANGED <<sharder, log, offset, assignment, group_id, storeVars,
                   registryVars, sessionVars, auxVars>>

(***************************************************************************)
(* User events consumer (outbound/events/user_consumer.rs) and the replica *)
(* table it maintains (outbound/repositories/user_replica.rs).             *)
(***************************************************************************)
UserPolling == [pc |-> "poll", offset |-> 0, skipped |-> {}]

\* the variants of UserEventMessage, tagged by event_type in snake_case
UserEventTypes == {"user_created", "user_updated", "user_deleted"}

\* Username::new: 3 to 32 bytes of alphanumerics, '_' or '-'; a name is the
\* sequence of its characters
USERNAME_MIN_LENGTH == 3
USERNAME_MAX_LENGTH == 32
UsernameChars == {"a", "b", "e", "o", "v", "_", "-"}
UsernameNew(name) ==
    /\ Len(name) >= USERNAME_MIN_LENGTH
    /\ Len(name) <= USERNAME_MAX_LENGTH
    /\ \A n \in 1..Len(name) : name[n] \in UsernameChars

\* INSERT INTO user_replica ... ON CONFLICT (id) DO NOTHING
Upsert_DoNothing(replica, user) ==
    IF user.id \in DOMAIN replica THEN replica
    ELSE MapInsert(replica, user.id, [username |-> user.username,
                                      created_at |-> user.created_at,
                                      updated_at |-> user.updated_at])

\* INSERT INTO user_replica ... ON CONFLICT (id) DO UPDATE SET username, updated_at
Upsert(replica, user) ==
    IF user.id \in DOMAIN replica
    THEN [replica EXCEPT ![user.id].username = user.username,
                         ![user.id].updated_at = user.updated_at]
    ELSE MapInsert(replica, user.id, [username |-> user.username,
                                      created_at |-> user.created_at,
                                      updated_at |-> user.updated_at])

\* DELETE FROM user_replica WHERE id = $1 treated as an error when no row matched
Delete_MustExist(replica, user_id) ==
    [ok |-> user_id \in DOMAIN replica, replica |-> MapRemove(replica, user_id)]

\* DELETE FROM user_replica WHERE id = $1; rows_affected = 0 is logged, then Ok
Delete(replica, user_id) ==
    [ok |-> TRUE, replica |-> MapRemove(replica, user_id)]

\* handle_event: handle_user_created / handle_user_updated / handle_user_deleted
\* with a working database; t is the reading of Utc::now()
HandleUserEvent(replica, e, t) ==
    LET id == ParseUuid(e.user_id)
    IN  IF ~id.ok THEN [ok |-> FALSE, replica |-> replica]
        ELSE IF e.event_type = "user_deleted"
        THEN Delete(replica, id.id)
        ELSE IF ~UsernameNew(e.username) THEN [ok |-> FALSE, replica |-> replica]
        ELSE IF e.event_type = "user_created"
        THEN [ok |-> TRUE,
              replica |-> Upsert(replica, [id |-> id.id, username |-> e.username,
                                           created_at |-> e.created_at,
                                           updated_at |-> e.created_at])]
        ELSE [ok |-> TRUE,
              replica |-> Upsert(replica,
                 [id |-> id.id, username |-> e.username,
                  created_at |-> IF id.id \in DOMAIN replica
                                 THEN replica[id.id].created_at ELSE t,
                  updated_at |-> e.updated_at])]

\* user-service (or anything else) puts a record on the user-events topic
UserBusRecord(r) ==
    /\ user_events' = Append(user_events, r)
    /\ UNCHANGED <<sharder, busVars, storeVars, registryVars, outq, sessionVars,
                   calls, regop, hist, groupVars, identityVars, lockVars, user_consumer, user_replica>>

\* start_consuming: the stream yields the next record; process_message decodes
\* it, converts it and runs the handler, whose database call may fail
UserConsumerPoll ==
    /\ user_consumer.pc = "poll"
    /\ user_consumer.offset < Len(user_events)
    /\ \E db_ok \in BOOLEAN :
          LET n       == user_consumer.offset + 1
              r       == user_events[n]
              decoded == ProcessMessage(r, UserEventTypes) = "ok"
              h       == HandleUserEvent(user_replica, r, now)
              reason  == IF ~decoded \/ ~h.ok THEN "input"
                         ELSE IF ~db_ok THEN "database" ELSE "none"
          IN  /\ user_replica' = IF reason = "none" THEN h.replica ELSE user_replica
              /\ user_consumer' =
                    [pc |-> IF reason = "none" THEN "poll" ELSE OnProcessError,
                     offset |-> n,
                     skipped |-> IF reason = "none" THEN user_consumer.skipped
                                 ELSE user_consumer.skipped \cup {<<n, reason>>}]
    /\ UNCHANGED <<sharder, busVars, storeVars, registryVars, outq, sessionVars,
                   calls, regop, hist, groupVars, identityVars, lockVars, user_events>>

\* the stream yields Err(KafkaError): logged, then a sleep of 100 ms
UserConsumerKafkaError ==
    /\ user_consumer.pc = "poll"
    /\ user_consumer' = [user_consumer EXCEPT !.pc =
                            IF OnProcessError = "poll" THEN "backoff" ELSE OnProcessError]
    /\ UNCHANGED <<sharder, busVars, storeVars, registryVars, outq, sessionVars,
                   calls, regop, hist, groupVars, identityVars, lockVars, user_events, user_replica>>

UserConsumerWake ==
    /\ user_consumer.pc = "backoff"
    /\ user_consumer' = [user_consumer EXCEPT !.pc = "poll"]
    /\ UNCHANGED <<sharder, busVars, storeVars, registryVars, outq, sessionVars,
                   calls, regop, hist, groupVars, identityVars, lockVars, user_events, user_replica>>

\* the consumer is created with auto.offset.reset = earliest; the table starts empty
InitReplica ==
    /\ user_events = <<>>
    /\ user_consumer = UserPolling
    /\ user_replica = EmptyMap

\* no group has committed an offset; every consumer is in its first run and
\* subscribed when nothing had been published
InitGroup ==
    /\ committed = [g \in GroupIds |-> EmptyMap]
    /\ started = [i \in Instances |-> [n |-> 1, published |-> 0, pos |-> EmptyMap]]

\* the identity service (user-service) runs its HTTP handlers as tasks
Requests == {"r1", "r2"}
NoUser == [username |-> <<>>, email |-> "none", password_hash |-> <<"argon2", "none">>,
           created_at |-> 0]
\* a request task between two calls
IdIdle == [pc |-> "idle", op |-> "none", id |-> "none", user |-> NoUser,
           result |-> "none", attempts |-> 0, n |-> 0,
           response |-> [status |-> 0, message |-> "none"]]

\* the users table is empty and no request has arrived

\* the registry's locks (tokio::sync::RwLock): who holds each one and the FIFO
\* queue of the acquisitions that wait
LockNames == {"connections", "channel_connections"}
Unlocked == [readers |-> {}, writer |-> {}, queue |-> <<>>]
Broadcasters == {"b1", "b2"}
Tasks == {"k1", "k2"} \cup Broadcasters
TaskIdle == [pc |-> "idle", channel_id |-> 0, n |-> 0]
RECURSIVE SumLockCalls(_)
SumLockCalls(ts) ==
    IF ts = {} THEN 0
    ELSE LET t == CHOOSE x \in ts : TRUE IN task[t].n + SumLockCalls(ts \ {t})
InitLocks ==
    /\ rwlock = [l \in LockNames |-> Unlocked]
    /\ task = [t \in Tasks |-> TaskIdle]

InitIdentity ==
    /\ users = EmptyMap
    /\ req = [r \in Requests |-> IdIdle]
    /\ minted = {}
    /\ commits = <<>>

(***************************************************************************)
(* The system: two chat-service instances on one broker and one store.     *)
(***************************************************************************)
ConfigNumShards == {2}

Members(g) == {i \in Instances : group_id[i] = g}

Init ==
    /\ \E n \in ConfigNumShards : sharder = TopicSharderNew(n, "chat.messages")
    /\ group_id \in {f \in [Instances -> GroupIds] : f["I1"] = "chat-service"}
    /\ assignment \in [GetAllShards(sharder) -> [GroupIds -> Instances]]
    /\ \A t \in GetAllShards(sharder) : \A g \in GroupIds :
          assignment[t][g] \in (IF Members(g) = {} THEN {"I1"} ELSE Members(g))
    /\ log = [t \in GetAllShards(sharder) |-> <<>>]
    /\ offset = [i \in Instances |-> [t \in GetAllShards(sharder) |-> 0]]
    /\ consumer = [i \in Instances |-> Polling]
    /\ channels = {1}
    /\ messages_by_channel = {}
    /\ messages_by_user = {}
    /\ now = 0
    /\ connections = [i \in Instances |-> EmptyMap]
    /\ channel_connections = [i \in Instances |-> EmptyMap]
    /\ outq = [k \in Conns |-> <<>>]
    /\ session = [k \in Conns |-> NoSession]
    /\ sending = [k \in Conns |-> Idle]
    /\ sends = 0
    /\ results = EmptyMap
    /\ calls = <<>>
    /\ regop = [k \in Conns |-> NoCall]
    /\ hist = NoHist
    /\ InitReplica
    /\ InitGroup
    /\ InitIdentity
    /\ InitLocks

Next ==
    \/ \E k \in Conns, ch \in Channels : Upgrade(k, ch)
    \/ \E k \in Conns : ClientSendMessage(k)
    \/ \E k \in Conns : SendInsertByChannel(k)
    \/ \E k \in Conns : SendInsertByUser(k)
    \/ \E k \in Conns : SendPublish(k)
    \/ \E k \in Conns : Close(k)
    \/ \E ch \in Channels : CreateChannel(ch)
    \/ \E i \in Instances, t \in DOMAIN log : ConsumerPoll(i, t)
    \/ \E i \in Instances : ConsumerBroadcast(i)

Spec == Init /\ [][Next]_vars

(***************************************************************************)
(* Properties of the system specification.                                 *)
(***************************************************************************)
EventIn(event_id) == \E e \in Records(log) : e.event_id = event_id
RecordOf(event_id) == CHOOSE e \in Records(log) : e.event_id = event_id
HasRow(rows, channel_id, message_id) ==
    \E r \in rows : r.channel_id = channel_id /\ r.id = message_id
HasUserRow(rows, user_id, message_id) ==
    \E r \in rows : r.user_id = user_id /\ r.id = message_id
NewMessages(q) == {a \in 1..Len(q) : q[a].type = "new_message"}
FrameOf(r) ==
    [type |-> "new_message", id |-> r.msg.id, user_id |-> r.msg.user_id,
     content |-> r.msg.content, timestamp |-> r.msg.timestamp]
Received(k, sid) ==
    \E a \in NewMessages(outq[k]) :
        /\ outq[k][a].of_event = sid
        /\ [f \in DOMAIN FrameOf(results[sid]) |-> outq[k][a][f]] = FrameOf(results[sid])
\* instance i's consumer is still going to take the record at position j of topic t,
\* or holds its frame for the broadcast
Pending(i, t, j) ==
    \/ offset[i][t] < j /\ t \in Subscribed(i) /\ Assigned(i, t)
    \/ /\ consumer[i].pc = "broadcast"
       /\ consumer[i].frame.of_event = log[t][j].event_id

\* C1: when A (on I1) and B (on I2) are registered for channel c and A's send is
\* persisted and published, B receives new_message with A's content and user id:
\* as long as B stays connected, either B's queue holds the frame or B's
\* instance is still going to deliver it.
C1_EndToEndFanOut ==
    \A sid \in DOMAIN results : \A b \in results[sid].audience :
        (results[sid].published = "ok" /\ session[b].pc = "active")
        => \/ Received(b, sid)
           \/ \E t \in DOMAIN log : \E j \in 1..Len(log[t]) :
                 log[t][j].event_id = sid /\ Pending(ConnInstance(b), t, j)

\* C2: every instance's fan-out consumer is delivered every event published on
\* any shard, independently of the other instances' consumers: a record an
\* instance has not been handed yet is one the broker is still going to hand it.
C2_EveryInstanceEveryEvent ==
    \A i \in Instances : \A t \in DOMAIN log :
        offset[i][t] < Len(log[t]) => (t \in Subscribed(i) /\ Assigned(i, t))

\* C3: in send the store write strictly precedes the publish: every published
\* event has its row in both tables, and a send whose store write failed
\* returned DatabaseError and published nothing.
C3_StoreBeforePublish ==
    /\ \A e \in Records(log) :
          /\ HasRow(messages_by_channel, ParseUuid(e.channel_id).id,
                    ParseUuid(e.message_id).id)
          /\ HasUserRow(messages_by_user, ParseUuid(e.user_id).id,
                        ParseUuid(e.message_id).id)
    /\ \A sid \in DOMAIN results :
          /\ results[sid].published = "ok" => results[sid].stored = "ok"
          /\ results[sid].stored = "failed" =>
                /\ results[sid].status = "DatabaseError"
                /\ results[sid].published = "none"
                /\ ~EventIn(sid)

\* C3's case: one send was published and another one failed in the store
C3_witness ==
    /\ Records(log) # {}
    /\ \E sid \in DOMAIN results : results[sid].stored = "failed"

C5_UnknownChannelRejected ==
    /\ \A k \in Conns : IsSending(k) => sending[k].existed
    /\ \A sid \in DOMAIN results :
          LET r == results[sid]
          IN  /\ r.status = "ChannelNotFound" => ~r.existed
              /\ ~r.existed =>
                    /\ r.status \in {"ChannelNotFound", "DatabaseError"}
                    /\ r.msg = NoValue
                    /\ r.stored = "none"
                    /\ r.published = "none"
                    /\ ~EventIn(sid)
    /\ \A m \in messages_by_channel : m.channel_id \in channels

\* C5's case: a send on a missing channel returned ChannelNotFound
C5_witness ==
    \E sid \in DOMAIN results :
        results[sid].status = "ChannelNotFound" /\ ~results[sid].existed

\* C6: two events of one channel are handed to every connection in the order in
\* which they were published.
C6_PerChannelOrder ==
    \A k \in Conns : \A a, b \in NewMessages(outq[k]) :
        LET ea == RecordOf(outq[k][a].of_event)
            eb == RecordOf(outq[k][b].of_event)
        IN  (a < b /\ ea.channel_id = eb.channel_id) => ea.seq < eb.seq

\* C6's case: a connection was handed two events sent by different sessions
C6_witness ==
    \E k \in Conns : \E a, b \in NewMessages(outq[k]) :
        /\ a < b
        /\ outq[k][a].user_id # outq[k][b].user_id

(***************************************************************************)
(* The shard router on its own: any constructor arguments, any channel,    *)
(* publishers in either process.                                           *)
(***************************************************************************)
ChannelUuids == 0..MaxChannelUuid

\* the variables of the broker's clients and of the store, at rest
InitIdle ==
    /\ group_id = [i \in Instances |-> "chat-service"]
    /\ assignment = EmptyMap
    /\ offset = [i \in Instances |-> EmptyMap]
    /\ consumer = [i \in Instances |-> Polling]
    /\ channels = {}
    /\ messages_by_channel = {}
    /\ messages_by_user = {}
    /\ now = 0
    /\ connections = [i \in Instances |-> EmptyMap]
    /\ channel_connections = [i \in Instances |-> EmptyMap]
    /\ outq = [k \in Conns |-> <<>>]
    /\ sending = [k \in Conns |-> Idle]
    /\ sends = 0
    /\ results = EmptyMap
    /\ InitReplica
    /\ InitGroup
    /\ InitIdentity
    /\ InitLocks

InitShard ==
    /\ \E n \in 0..MaxNumShards, prefix \in Prefixes :
          sharder = TopicSharderNew(n, prefix)
    /\ log = EmptyMap
    /\ InitIdle
    /\ session = [k \in Conns |-> NoSession]
    /\ calls = <<>>
    /\ regop = [k \in Conns |-> NoCall]
    /\ hist = NoHist

\* KafkaEventProducer::publish_event called in process p for an event of channel c
ShardPublish(p, c) ==
    /\ sharder.ok
    /\ Len(calls) < MaxShardPublishes
    /\ calls' = Append(calls, [by |-> p, channel_id |-> c])
    /\ log' = PublishEvent(p, sharder, log, c,
                 MessageSentEnvelope(Len(calls) + 1, PublishedCount(log) + 1,
                    [id |-> 0, channel_id |-> c, user_id |-> "uA",
                     content |-> "hi", timestamp |-> 0]))
    /\ UNCHANGED <<sharder, offset, consumer, assignment, group_id, storeVars,
                   registryVars, outq, sessionVars, regop, hist, replicaVars, groupVars, identityVars, lockVars>>

NextShard == \E p \in Instances, c \in ChannelUuids : ShardPublish(p, c)

SpecShard == InitShard /\ [][NextShard]_vars

\* where the records of one publish call ended up
TopicsOf(event_id) ==
    {t \in DOMAIN log : \E j \in 1..Len(log[t]) : log[t][j].event_id = event_id}

\* C7: every event of a channel c is published to exactly one topic, the topic
\* <prefix>.(hash64(c) & (N - 1)); its index lies in [0, N) and the topic is one
\* of the N topics of allShards(), to which every fan-out consumer subscribes.
C7_OneShardPerEvent ==
    \A n \in 1..Len(calls) :
        LET c     == calls[n].channel_id
            index == BitAnd(Hash64(HasherKey(calls[n].by), c), sharder.num_shards - 1)
            topic == TopicName(sharder.topic_prefix, index)
        IN  /\ TopicsOf(n) = {topic}
            /\ Cardinality({j \in 1..Len(log[topic]) : log[topic][j].event_id = n}) = 1
            /\ index \in 0..(sharder.num_shards - 1)
            /\ topic \in GetAllShards(sharder)
            /\ Cardinality(GetAllShards(sharder)) = sharder.num_shards
            /\ \A i \in Instances : topic \in Subscribed(i)

\* C7's case: with several shards, an event went to a shard other than shard 0
\* and another one to shard 0
C7_witness ==
    /\ sharder.ok
    /\ sharder.num_shards > 2
    /\ \E t1, t2 \in DOMAIN log : t1[2] = 0 /\ t2[2] > 1

Reg == "I1"
TestFrame(n) == [type |-> "new_message", id |-> n, user_id |-> "uA",
                 content |-> "hi", timestamp |-> n, of_event |-> n]

InitRegistry ==
    /\ sharder = TopicSharderNew(2, "chat.messages")
    /\ log = EmptyMap
    /\ InitIdle
    /\ session = [k \in Conns |-> [pc |-> "active", channel_id |-> NoValue, rx |-> TRUE]]
    /\ calls = <<>>
    /\ regop = [k \in Conns |-> NoCall]
    /\ hist = NoHist

RegIdle == \A k \in Conns : regop[k] = NoCall

\* add_connection(k, user, ch, sender) takes the connections guard
RegAddInsert(k, ch) ==
    /\ regop[k] = NoCall
    /\ hist.n < MaxRegistryCalls
    /\ connections' = [connections EXCEPT ![Reg] = AddInsert(@, k, ConnUser(k), ch, k)]
    /\ regop' = [regop EXCEPT ![k] = [op |-> "add", channel_id |-> ch]]
    /\ hist' = [n |-> hist.n + 1, added |-> hist.added \cup {k},
                dup |-> hist.dup \/ k \in hist.added,
                last |-> [op |-> "add", id |-> k, channel_id |-> ch]]
    /\ UNCHANGED <<sharder, busVars, storeVars, channel_connections, outq,
                   sessionVars, calls, replicaVars, groupVars, identityVars, lockVars>>

\* add_connection takes the channel_connections guard and returns
RegAddIndex(k) ==
    /\ regop[k].op = "add"
    /\ channel_connections' =
          [channel_connections EXCEPT ![Reg] = AddIndex(@, k, regop[k].channel_id)]
    /\ regop' = [regop EXCEPT ![k] = NoCall]
    /\ UNCHANGED <<sharder, busVars, storeVars, connections, outq, sessionVars,
                   calls, hist, replicaVars, groupVars, identityVars, lockVars>>

\* remove_connection(k) takes the connections guard; it returns at once when
\* the id was not registered
RegRemoveEntry(k) ==
    /\ regop[k] = NoCall
    /\ hist.n < MaxRegistryCalls
    /\ connections' = [connections EXCEPT ![Reg] = RemoveEntry(@, k)]
    /\ regop' = [regop EXCEPT ![k] =
                   IF k \in DOMAIN connections[Reg]
                   THEN [op |-> "remove", channel_id |-> connections[Reg][k].channel_id]
                   ELSE NoCall]
    /\ hist' = [hist EXCEPT !.n = @ + 1,
                            !.last = [op |-> "remove", id |-> k, channel_id |-> 0]]
    /\ UNCHANGED <<sharder, busVars, storeVars, channel_connections, outq,
                   sessionVars, calls, replicaVars, groupVars, identityVars, lockVars>>

\* remove_connection takes the channel_connections guard and returns
RegRemoveIndex(k) ==
    /\ regop[k].op = "remove"
    /\ channel_connections' =
          [channel_connections EXCEPT ![Reg] = RemoveIndex(@, k, regop[k].channel_id)]
    /\ regop' = [regop EXCEPT ![k] = NoCall]
    /\ UNCHANGED <<sharder, busVars, storeVars, connections, outq, sessionVars,
                   calls, hist, replicaVars, groupVars, identityVars, lockVars>>

\* broadcast_to_channel(ch, frame)
RegBroadcast(ch) ==
    /\ hist.n < MaxRegistryCalls
    /\ outq' = BroadcastToChannel(connections[Reg], channel_connections[Reg], outq,
                                  Open, ch, TestFrame(hist.n + 1))
    /\ hist' = [hist EXCEPT !.n = @ + 1, !.last = [op |-> "broadcast", id |-> NoValue,
                                                        channel_id |-> ch]]
    /\ UNCHANGED <<sharder, busVars, storeVars, registryVars, sessionVars, calls, regop,
                   replicaVars, groupVars, identityVars, lockVars>>

\* the writer task of a session ends and drops the receiving half of its queue
\* while the connection is still registered
RegDropReceiver(k) ==
    /\ session[k].rx
    /\ session' = [session EXCEPT ![k].rx = FALSE]
    /\ UNCHANGED <<sharder, busVars, storeVars, registryVars, outq, sending, sends,
                   results, auxVars>>

NextRegistry ==
    \/ \E k \in Conns : RegDropReceiver(k)
    \/ \E k \in Conns, ch \in Channels : RegAddInsert(k, ch)
    \/ \E k \in Conns : RegAddIndex(k)
    \/ \E k \in Conns : RegRemoveEntry(k)
    \/ \E k \in Conns : RegRemoveIndex(k)
    \/ \E ch \in Channels : RegBroadcast(ch)

SpecRegistry == InitRegistry /\ [][NextRegistry]_vars

Registered(ch) ==
    {k \in DOMAIN connections[Reg] : connections[Reg][k].channel_id = ch}
Listed(k, ch) ==
    /\ ch \in DOMAIN channel_connections[Reg]
    /\ k \in SeqToSet(channel_connections[Reg][ch])

CountMatchesRegistered ==
    (RegIdle /\ ~hist.dup) =>
        \A ch \in Channels :
            GetChannelConnectionCount(channel_connections[Reg], ch)
                = Cardinality(Registered(ch))

\* a step that is a broadcast to a channel with no registered connection left
BroadcastToEmptied(ch) ==
    /\ hist'.n = hist.n + 1
    /\ hist'.last = [op |-> "broadcast", id |-> NoValue, channel_id |-> ch]
    /\ ~hist.dup
    /\ Registered(ch) = {}
    /\ \A k \in Conns : regop[k].channel_id # ch

\* C9: for any sequence of add and remove calls with distinct connection ids,
\* connectionsInChannel(ch) is the number of registered connections of ch
\* (1 after add(c1, u, ch, q), 0 after remove(c1)), and a broadcast to ch after
\* all its connections were removed enqueues onto zero queues.
C9_RegistryBookkeeping ==
    /\ []CountMatchesRegistered
    /\ [][\A ch \in Channels : BroadcastToEmptied(ch) => outq' = outq]_vars

\* C9's case: two connections were added under distinct ids to two channels, one
\* was removed again, and a frame was then broadcast to the emptied channel
C9_witness ==
    /\ RegIdle
    /\ ~hist.dup
    /\ hist.last.op = "broadcast"
    /\ hist.added = Conns
    /\ Registered(hist.last.channel_id) = {}
    /\ GetChannelConnectionCount(channel_connections[Reg], 3 - hist.last.channel_id) = 1

\* C10: add is idempotent on the connection id: a second add(c, u, ch, q) leaves
\* the registry as the first one did, so that c is listed and counted once.
C10_AddIdempotent ==
    \A k \in Conns : \A ch \in Channels :
        (RegIdle /\ Listed(k, ch)) =>
            Cardinality({n \in 1..Len(channel_connections[Reg][ch]) :
                            channel_connections[Reg][ch][n] = k}) = 1

\* the last registry call started was remove(k), and it has returned
RemoveCompleted(k) ==
    /\ hist.last.op = "remove"
    /\ hist.last.id = k
    /\ regop[k] = NoCall

\* a step that starts remove(k) for an id that is not registered
RemoveOfUnknown(k) ==
    /\ hist'.n = hist.n + 1
    /\ hist'.last = [op |-> "remove", id |-> k, channel_id |-> 0]
    /\ k \notin DOMAIN connections[Reg]

\* C11: remove(c) removes c from both registry maps and keeps the channel index
\* sparse: no channel maps to an empty list of connection ids, and remove of an
\* unknown connection id changes neither map.
C11_RemoveKeepsIndexSparse ==
    /\ [](\A ch \in DOMAIN channel_connections[Reg] :
              channel_connections[Reg][ch] # <<>>)
    /\ [](\A k \in Conns : RemoveCompleted(k) =>
              /\ k \notin DOMAIN connections[Reg]
              /\ \A ch \in Channels : ~Listed(k, ch))
    /\ [][\A k \in Conns : RemoveOfUnknown(k) =>
              /\ connections' = connections
              /\ channel_connections' = channel_connections
              /\ regop' = regop]_vars

\* a step that is broadcast(ch, frame)
IsBroadcast(ch) ==
    /\ hist'.n = hist.n + 1
    /\ hist'.last = [op |-> "broadcast", id |-> NoValue, channel_id |-> ch]

\* C12: broadcast(ch, frame) enqueues the frame exactly once on every connection
\* registered for ch whose queue is still open; a failed enqueue on one
\* connection (receiver gone) does not prevent the enqueue on the others.
C12_BroadcastOncePerOpenQueue ==
    [][\A ch \in Channels : IsBroadcast(ch) =>
          \A k \in Conns :
              regop[k] = NoCall =>
                  outq'[k] = IF k \in Registered(ch) /\ session[k].rx
                             THEN Append(outq[k], TestFrame(hist'.n))
                             ELSE outq[k]]_vars

(***************************************************************************)
(* One instance's fan-out consumer with two local sessions: the records    *)
(* come from the producers of other instances.                             *)
(***************************************************************************)
Local == "I2"
LocalConns == {"k2", "k3"}

InitConsumer ==
    /\ sharder = TopicSharderNew(2, "chat.messages")
    /\ group_id = [i \in Instances |-> IF i = Local THEN "chat-service-b" ELSE "chat-service"]
    /\ assignment = [t \in GetAllShards(sharder) |->
                       [g \in GroupIds |-> IF g = "chat-service-b" THEN Local ELSE "I1"]]
    /\ log = [t \in GetAllShards(sharder) |-> <<>>]
    /\ offset = [i \in Instances |-> [t \in GetAllShards(sharder) |-> 0]]
    /\ consumer = [i \in Instances |-> Polling]
    /\ channels = Channels
    /\ messages_by_channel = {}
    /\ messages_by_user = {}
    /\ now = 0
    /\ connections = [i \in Instances |-> EmptyMap]
    /\ channel_connections = [i \in Instances |-> EmptyMap]
    /\ outq = [k \in LocalConns |-> <<>>]
    /\ session = [k \in LocalConns |-> NoSession]
    /\ sending = [k \in LocalConns |-> Idle]
    /\ sends = 0
    /\ results = EmptyMap
    /\ calls = <<>>
    /\ regop = [k \in LocalConns |-> NoCall]
    /\ hist = NoHist
    /\ InitReplica
    /\ InitGroup
    /\ InitIdentity
    /\ InitLocks

\* the producer of another instance publishes a MessageSent event of channel c
BusPublish(c) ==
    /\ PublishedCount(log) < MaxBusRecords
    /\ log' = PublishEvent("I1", sharder, log, c,
                 MessageSentEnvelope(PublishedCount(log) + 1, PublishedCount(log) + 1,
                    [id |-> PublishedCount(log) + 1, channel_id |-> c, user_id |-> "uA",
                     content |-> "hi", timestamp |-> PublishedCount(log) + 1]))
    /\ UNCHANGED <<sharder, offset, consumer, assignment, group_id, storeVars,
                   registryVars, outq, sessionVars, auxVars>>

NextConsumer ==
    \/ \E k \in LocalConns, ch \in Channels : Upgrade(k, ch)
    \/ \E k \in LocalConns : Close(k)
    \/ \E c \in Channels : BusPublish(c)
    \/ \E t \in DOMAIN log : ConsumerPoll(Local, t)
    \/ ConsumerBroadcast(Local)

SpecConsumer == InitConsumer /\ [][NextConsumer]_vars

\* the channel of the event a frame was built from
ChannelOfFrame(f) == ParseUuid(RecordOf(f.of_event).channel_id).id

\* a step in which instance i's consumer broadcasts the frame it holds
BroadcastStep(i) == consumer[i].pc = "broadcast" /\ consumer'[i].pc = "poll"

\* C13: channel isolation of broadcast: broadcast(ch, frame) enqueues nothing on
\* a connection registered for a different channel (nor on a session of another
\* instance), so a session only ever receives new_message frames of the channel
\* it connected to.
C13_ChannelIsolation ==
    /\ [](\A k \in DOMAIN session : \A a \in NewMessages(outq[k]) :
              /\ session[k].pc # "none"
              /\ ChannelOfFrame(outq[k][a]) = session[k].channel_id)
    /\ [][\A i \in Instances : BroadcastStep(i) =>
              \A k \in DOMAIN session :
                  outq'[k] # outq[k] =>
                      /\ ConnInstance(k) = i
                      /\ session[k].pc = "active"
                      /\ session[k].channel_id = consumer[i].channel_id]_vars

\* C13's case: two sessions of one instance listen to different channels, events
\* of both channels were handled, and each session holds one new_message frame
C13_witness ==
    /\ \A k \in LocalConns : session[k].pc = "active"
    /\ session["k2"].channel_id # session["k3"].channel_id
    /\ \A k \in LocalConns : Cardinality(NewMessages(outq[k])) = 1
    /\ consumer[Local].pc = "poll"

IsMessageSent(r) == "event_type" \in DOMAIN r /\ r.event_type = "message_sent"

\* a step in which instance i's consumer takes the next record of topic t
PollStep(i, t) == offset'[i][t] = offset[i][t] + 1

\* C14: consumer filter: when the fan-out consumer handles a MessageSent event of
\* a channel with zero local sessions (connectionsInChannel = 0), it drops the
\* event without calling broadcast and without enqueuing onto any queue.
C14_ConsumerFilter ==
    [][\A i \in Instances : \A t \in DOMAIN log :
          LET e == log[t][offset[i][t] + 1]
          IN  ( /\ PollStep(i, t)
                /\ IsMessageSent(e)
                /\ GetChannelConnectionCount(channel_connections[i],
                                             ParseUuid(e.channel_id).id) = 0 )
              => /\ consumer'[i].pc = "poll"
                 /\ outq' = outq]_vars

\* C14's case: the consumer has handled an event of a channel that never had a
\* local session, while a session of another channel is connected
C14_witness ==
    \E t \in DOMAIN log : \E j \in 1..Len(log[t]) :
        /\ j <= offset[Local][t]
        /\ IsMessageSent(log[t][j])
        /\ \A k \in LocalConns :
              session[k].pc = "none"
                  \/ session[k].channel_id # ParseUuid(log[t][j].channel_id).id
        /\ \E k \in LocalConns : session[k].pc = "active" /\ Len(outq[k]) = 1

(***************************************************************************)
(* The two consumer loops of one instance, fed with well-formed and        *)
(* malformed records; session k2 listens to channel 1 throughout.          *)
(***************************************************************************)
RECURSIVE SumLen(_, _)
SumLen(topics, ts) ==
    IF ts = {} THEN 0
    ELSE LET t == CHOOSE x \in ts : TRUE
         IN  Len(topics[t]) + SumLen(topics, ts \ {t})
RecordsOnBus == SumLen(log, DOMAIN log) + Len(user_events)

NotAUuid == <<"garbage">>
SentTemplate ==
    MessageSentEnvelope(0, 0, [id |-> 0, channel_id |-> 1, user_id |-> "uA",
                               content |-> "hi", timestamp |-> 0])
\* what a fan-out consumer can be handed besides a well-formed MessageSent
ChatGarbage ==
    {[garbage |-> g] : g \in {"no_payload", "bad_utf8", "bad_json"}}
    \cup {[event_type |-> "message_deleted", event_id |-> 0]}
    \cup {[SentTemplate EXCEPT !.channel_id = NotAUuid],
          [SentTemplate EXCEPT !.message_id = NotAUuid],
          [SentTemplate EXCEPT !.user_id = NotAUuid]}
\* what the user events consumer can be handed
UserRecords ==
    {[garbage |-> g] : g \in {"no_payload", "bad_json"}}
    \cup {[event_type |-> "user_banned", event_id |-> 0]}
    \cup {[event_type |-> "user_created", event_id |-> 0, user_id |-> u,
           username |-> <<"b", "o", "b">>, created_at |-> 1]
          : u \in {UuidToString("uA"), NotAUuid}}
    \cup {[event_type |-> "user_updated", event_id |-> 0, user_id |-> UuidToString("uA"),
           username |-> n, updated_at |-> 2] : n \in {<<"e", "v", "e">>, <<"e", "!">>}}
    \cup {[event_type |-> "user_deleted", event_id |-> 0, user_id |-> UuidToString("uA"),
           deleted_at |-> 3]}

InitLoops ==
    /\ sharder = TopicSharderNew(2, "chat.messages")
    /\ group_id = [i \in Instances |-> IF i = Local THEN "chat-service-b" ELSE "chat-service"]
    /\ assignment = [t \in GetAllShards(sharder) |->
                       [g \in GroupIds |-> IF g = "chat-service-b" THEN Local ELSE "I1"]]
    /\ log = [t \in GetAllShards(sharder) |-> <<>>]
    /\ offset = [i \in Instances |-> [t \in GetAllShards(sharder) |-> 0]]
    /\ consumer = [i \in Instances |-> Polling]
    /\ channels = Channels
    /\ messages_by_channel = {}
    /\ messages_by_user = {}
    /\ now = 0
    /\ connections = [i \in Instances |->
          IF i = Local THEN AddConnection(EmptyMap, EmptyMap, "k2", ConnUser("k2"), 1,
                                          "k2").connections
          ELSE EmptyMap]
    /\ channel_connections = [i \in Instances |->
          IF i = Local THEN AddConnection(EmptyMap, EmptyMap, "k2", ConnUser("k2"), 1,
                                          "k2").channel_connections
          ELSE EmptyMap]
    /\ outq = [k \in {"k2"} |-> <<ConnectedFrame(1)>>]
    /\ session = [k \in {"k2"} |-> [pc |-> "active", channel_id |-> 1, rx |-> TRUE]]
    /\ sending = [k \in {"k2"} |-> Idle]
    /\ sends = 0
    /\ results = EmptyMap
    /\ calls = <<>>
    /\ regop = [k \in {"k2"} |-> NoCall]
    /\ hist = NoHist
    /\ InitReplica
    /\ InitGroup
    /\ InitIdentity
    /\ InitLocks

\* anything else lands on a shard topic
BusGarbage(t, r) ==
    /\ log' = [log EXCEPT ![t] = Append(@, r)]
    /\ UNCHANGED <<sharder, offset, consumer, assignment, group_id, storeVars,
                   registryVars, outq, sessionVars, auxVars>>

NextLoops ==
    \/ RecordsOnBus < MaxLoopRecords /\ BusPublish(1)
    \/ RecordsOnBus < MaxLoopRecords
         /\ \E t \in DOMAIN log, r \in ChatGarbage : BusGarbage(t, r)
    \/ RecordsOnBus < MaxLoopRecords /\ \E r \in UserRecords : UserBusRecord(r)
    \/ \E t \in DOMAIN log : ConsumerPoll(Local, t)
    \/ ConsumerBroadcast(Local)
    \/ ConsumerKafkaError(Local)
    \/ ConsumerWake(Local)
    \/ UserConsumerPoll
    \/ UserConsumerKafkaError
    \/ UserConsumerWake

SpecLoops == InitLoops /\ [][NextLoops]_vars

\* a MessageSent envelope whose ids all parse
WellFormedSent(r) ==
    /\ IsMessageSent(r)
    /\ ParseUuid(r.channel_id).ok
    /\ ParseUuid(r.message_id).ok
    /\ ParseUuid(r.user_id).ok
\* a user event the handler accepts
WellFormedUser(r) ==
    /\ ProcessMessage(r, UserEventTypes) = "ok"
    /\ HandleUserEvent(EmptyMap, r, 0).ok
HasFrameOf(k, event_id) ==
    \E a \in NewMessages(outq[k]) : outq[k][a].of_event = event_id

\* both loops are at one of the await points of their while loop
LoopsRunning ==
    /\ consumer[Local].pc \in {"poll", "backoff", "broadcast"}
    /\ user_consumer.pc \in {"poll", "backoff"}

\* every well-formed MessageSent of the listened channel is delivered once the
\* consumer has passed it, whatever came before it
SentDelivered ==
    \A t \in DOMAIN log : \A j \in 1..Len(log[t]) :
        (WellFormedSent(log[t][j]) /\ j <= offset[Local][t])
        => \/ HasFrameOf("k2", log[t][j].event_id)
           \/ /\ consumer[Local].pc = "broadcast"
              /\ consumer[Local].frame.of_event = log[t][j].event_id

\* the last record the user consumer has passed, when well-formed and handled
\* with a working database, shows in the replica
UserApplied ==
    LET n == user_consumer.offset
    IN  (n >= 1 /\ WellFormedUser(user_events[n])
            /\ <<n, "database">> \notin user_consumer.skipped)
        => /\ <<n, "input">> \notin user_consumer.skipped
           /\ IF user_events[n].event_type = "user_deleted"
              THEN "uA" \notin DOMAIN user_replica
              ELSE /\ "uA" \in DOMAIN user_replica
                   /\ user_replica["uA"].username = user_events[n].username

\* C15: no input halts a consumer loop: after a broker error, a record without
\* payload, invalid UTF-8 or JSON, an unknown event type, an event with an
\* unparseable id, or a failing handler, that record is skipped and the next
\* well-formed event is still processed.
C15_LoopsNeverHalt ==
    /\ [](LoopsRunning /\ SentDelivered /\ UserApplied)
    /\ [][\A t \in DOMAIN log :
            (PollStep(Local, t) /\ ~WellFormedSent(log[t][offset[Local][t] + 1]))
            => (outq' = outq /\ consumer'[Local].pc = "poll")]_vars
    /\ [][(user_consumer'.offset = user_consumer.offset + 1
             /\ ~WellFormedUser(user_events[user_consumer.offset + 1]))
          => (user_replica' = user_replica /\ user_consumer'.pc = "poll")]_vars

\* C15's case: the fan-out consumer skipped a malformed record and then delivered
\* the well-formed event behind it on the same topic, and the user consumer
\* skipped a record too
C15_witness ==
    /\ \E t \in DOMAIN log :
          /\ Len(log[t]) = 2
          /\ ~WellFormedSent(log[t][1])
          /\ WellFormedSent(log[t][2])
          /\ HasFrameOf("k2", log[t][2].event_id)
    /\ user_consumer.skipped # {}

(***************************************************************************)
(* Websocket sessions of one instance, task by task (handler.rs): the      *)
(* upgrade request, the reader's dispatch of client frames, the end of     *)
(* either task, the supervisor's select! and the unregistration; channels  *)
(* can be deleted from the channel store meanwhile.                        *)
(***************************************************************************)
\* frames on a session's outbound queue up to which its reader takes client
\* frames, and send_message calls made by the sessions of the instance
MaxOutq == 2
MaxSessionSends == 1

MAX_LENGTH == 4000

\* Counting characters instead of bytes.
MessageContentNew_Chars(content) ==
    IF content.chars = 0 THEN "Empty"
    ELSE IF content.chars > MAX_LENGTH THEN "TooLong" ELSE "Ok"

\* MessageContent::new: content.len() is the length in bytes
MessageContentNew(content) ==
    IF content.len = 0 THEN "Empty"
    ELSE IF content.len > MAX_LENGTH THEN "TooLong" ELSE "Ok"

\* raw content strings, by their number of characters and of bytes (UTF-8)
Contents == {[chars |-> 0, len |-> 0], [chars |-> 1, len |-> 1],
             [chars |-> 4000, len |-> 4000], [chars |-> 4000, len |-> 4001],
             [chars |-> 4001, len |-> 4001]}

\* bearer tokens presented for connection k: whether decode accepts the token
\* (signature, exp) and its sub claim, an Option<String>
Tokens(k) == [decodes : BOOLEAN,
              sub : {<<>>, <<NotAUuid>>, <<UuidToString(ConnUser(k))>>}]
\* the channel_id segment of the upgrade URL
Paths == {NotAUuid, UuidToString(1)}

Rejected(status) == [status |-> status, user_id |-> NoValue, channel_id |-> 0]

\* Parsing the path before looking at the token.
WebsocketHandlerResponse_PathFirst(token, channel_id) ==
    IF ~ParseUuid(channel_id).ok THEN Rejected("BAD_REQUEST")
    ELSE IF ~token.decodes THEN Rejected("UNAUTHORIZED")
    ELSE IF token.sub = <<>> THEN Rejected("UNAUTHORIZED")
    ELSE IF ~ParseUuid(token.sub[1]).ok THEN Rejected("UNAUTHORIZED")
    ELSE [status |-> "SWITCHING_PROTOCOLS", user_id |-> ParseUuid(token.sub[1]).id,
          channel_id |-> ParseUuid(channel_id).id]

\* websocket_handler: validate_token, claims.sub, UserId::from_string,
\* ChannelId::from_string, then ws.on_upgrade
WebsocketHandlerResponse(token, channel_id) ==
    IF ~token.decodes THEN Rejected("UNAUTHORIZED")
    ELSE IF token.sub = <<>> THEN Rejected("UNAUTHORIZED")
    ELSE IF ~ParseUuid(token.sub[1]).ok THEN Rejected("UNAUTHORIZED")
    ELSE IF ~ParseUuid(channel_id).ok THEN Rejected("BAD_REQUEST")
    ELSE [status |-> "SWITCHING_PROTOCOLS", user_id |-> ParseUuid(token.sub[1]).id,
          channel_id |-> ParseUuid(channel_id).id]

\* an upgrade request for connection k: rejected with a status, or accepted and
\* handed to handle_socket
WebsocketHandler(k, token, channel_id) ==
    /\ session[k].pc = "none"
    /\ LET r == WebsocketHandlerResponse(token, channel_id)
       IN  IF r.status = "SWITCHING_PROTOCOLS"
           THEN Upgrade(k, r.channel_id)
           ELSE /\ session' = [session EXCEPT ![k].pc = r.status]
                /\ UNCHANGED <<sharder, busVars, storeVars, registryVars, outq,
                               sending, sends, results, auxVars>>

PongFrame == [type |-> "pong"]

\* Replying to every session of the sender's channel.
Reply_ToChannel(k, frame) ==
    /\ outq' = [j \in DOMAIN outq |->
                  IF j \in Open /\ session[j].channel_id = session[k].channel_id
                  THEN Append(outq[j], frame) ELSE outq[j]]
    /\ UNCHANGED <<sharder, busVars, storeVars, registryVars, sessionVars, auxVars>>

\* tx.send(frame) on the session's own sender; the result is ignored or, for a
\* pong, turned into an error frame whose send fails the same way
Reply(k, frame) ==
    /\ outq' = SenderSend(outq, Open, k, frame)
    /\ UNCHANGED <<sharder, busVars, storeVars, registryVars, sessionVars, auxVars>>

\* websocket messages a client can send
ClientFrames ==
    {[kind |-> "send_message", content |-> c] : c \in Contents}
        \cup {[kind |-> x, content |-> [chars |-> 0, len |-> 0]] :
                  x \in {"ping", "unparseable", "binary", "control"}}

\* the reader task takes the next websocket message: process_client_message and,
\* on Err, the error frame sent by the loop of recv_task
ProcessClientMessage(k, msg) ==
    /\ ReaderRunning(k)
    /\ ~IsSending(k)
    /\ Len(outq[k]) < MaxOutq
    /\ CASE msg.kind = "send_message" ->
              IF MessageContentNew(msg.content) = "Ok"
              THEN sends < MaxSessionSends /\ SendMessage(k, msg.content)
              ELSE Reply(k, ErrorFrame("Invalid message content"))
         [] msg.kind = "ping" -> Reply(k, PongFrame)
         [] msg.kind = "unparseable" -> Reply(k, ErrorFrame("Failed to parse message"))
         [] msg.kind = "binary" -> Reply(k, ErrorFrame("Binary messages not supported"))
         [] OTHER -> UNCHANGED vars

\* send_task ends: sender.send failed; the task drops the receiving half
WriterEnds(k) ==
    /\ session[k].pc = "active"
    /\ session' = [session EXCEPT ![k].pc = "writer_ended", ![k].rx = FALSE]
    /\ UNCHANGED <<sharder, busVars, storeVars, registryVars, outq, sending,
                   sends, results, auxVars>>

\* recv_task ends: receiver.next() yields None or Err
ReaderEnds(k) ==
    /\ session[k].pc = "active"
    /\ ~IsSending(k)
    /\ session' = [session EXCEPT ![k].pc = "reader_ended"]
    /\ UNCHANGED <<sharder, busVars, storeVars, registryVars, outq, sending,
                   sends, results, auxVars>>

\* select! sees the finished task and aborts the other one: an aborted reader
\* drops its send_message call, an aborted writer drops the receiving half
Supervise(k) ==
    /\ session[k].pc \in {"writer_ended", "reader_ended"}
    /\ session' = [session EXCEPT ![k].pc = "closing", ![k].rx = FALSE]
    /\ sending' = [sending EXCEPT ![k] = Idle]
    /\ UNCHANGED <<sharder, busVars, storeVars, registryVars, outq, sends,
                   results, auxVars>>

\* remove_connection(connection_id) at the end of handle_socket
Unregister(k) ==
    /\ session[k].pc = "closing"
    /\ session' = [session EXCEPT ![k].pc = "closed"]
    /\ LET i == ConnInstance(k)
           r == RemoveConnection(connections[i], channel_connections[i], k)
       IN  /\ connections' = [connections EXCEPT ![i] = r.connections]
           /\ channel_connections' = [channel_connections EXCEPT ![i] = r.channel_connections]
    /\ UNCHANGED <<sharder, busVars, storeVars, outq, sending, sends, results,
                   auxVars>>

\* ChannelRepository::delete: DELETE FROM channels WHERE id = $1
DeleteChannel(ch) ==
    /\ ch \in channels
    /\ channels' = channels \ {ch}
    /\ UNCHANGED <<sharder, busVars, messages_by_channel, messages_by_user, now,
                   registryVars, outq, sessionVars, auxVars>>

\* one instance and its broker, store and registry; channel 1 exists
InitSession ==
    /\ sharder = TopicSharderNew(2, "chat.messages")
    /\ group_id = [i \in Instances |-> "chat-service"]
    /\ assignment = [t \in GetAllShards(sharder) |-> [g \in GroupIds |-> Local]]
    /\ log = [t \in GetAllShards(sharder) |-> <<>>]
    /\ offset = [i \in Instances |-> [t \in GetAllShards(sharder) |-> 0]]
    /\ consumer = [i \in Instances |-> Polling]
    /\ channels = {1}
    /\ messages_by_channel = {}
    /\ messages_by_user = {}
    /\ now = 0
    /\ connections = [i \in Instances |-> EmptyMap]
    /\ channel_connections = [i \in Instances |-> EmptyMap]
    /\ outq = [k \in LocalConns |-> <<>>]
    /\ session = [k \in LocalConns |-> NoSession]
    /\ sending = [k \in LocalConns |-> Idle]
    /\ sends = 0
    /\ results = EmptyMap
    /\ calls = <<>>
    /\ regop = [k \in LocalConns |-> NoCall]
    /\ hist = NoHist
    /\ InitReplica
    /\ InitGroup
    /\ InitIdentity
    /\ InitLocks

NextSession ==
    \/ \E k \in LocalConns : \E token \in Tokens(k), p \in Paths :
          WebsocketHandler(k, token, p)
    \/ \E k \in LocalConns, msg \in ClientFrames : ProcessClientMessage(k, msg)
    \/ \E k \in LocalConns : SendInsertByChannel(k)
    \/ \E k \in LocalConns : SendInsertByUser(k)
    \/ \E k \in LocalConns : SendPublish(k)
    \/ \E k \in LocalConns : WriterEnds(k)
    \/ \E k \in LocalConns : ReaderEnds(k)
    \/ \E k \in LocalConns : Supervise(k)
    \/ \E k \in LocalConns : Unregister(k)
    \/ \E ch \in Channels : DeleteChannel(ch)

\* handle_socket is a spawned task that runs on: the supervisor's select! and
\* the registry's write locks are eventually granted
SpecSession ==
    /\ InitSession
    /\ [][NextSession]_vars
    /\ \A k \in LocalConns : WF_vars(Supervise(k)) /\ WF_vars(Unregister(k))

\* the registry of the session's instance holds k in one of its two maps
InRegistry(k) ==
    \/ k \in DOMAIN connections[ConnInstance(k)]
    \/ \E ch \in DOMAIN channel_connections[ConnInstance(k)] :
          k \in SeqToSet(channel_connections[ConnInstance(k)][ch])

BadToken(token) ==
    \/ ~token.decodes
    \/ token.sub = <<>>
    \/ ~ParseUuid(token.sub[1]).ok

\* C16: token gating of the upgrade: an invalid or expired token, a token without
\* sub, or a sub that is not a parseable UUID yields 401; an unparseable channel
\* id presented with a valid token yields 400; in each of these cases no
\* connection is registered and no frame is enqueued.
C16_TokenGating ==
    /\ [][\A k \in LocalConns : \A token \in Tokens(k), p \in Paths :
            WebsocketHandler(k, token, p) =>
               /\ BadToken(token) => session'[k].pc = "UNAUTHORIZED"
               /\ (~BadToken(token) /\ ~ParseUuid(p).ok) =>
                      session'[k].pc = "BAD_REQUEST"
               /\ (BadToken(token) \/ ~ParseUuid(p).ok) =>
                      /\ connections' = connections
                      /\ channel_connections' = channel_connections
                      /\ outq' = outq]_vars
    /\ [](\A k \in LocalConns :
             session[k].pc \in {"UNAUTHORIZED", "BAD_REQUEST"} =>
                 ~InRegistry(k) /\ outq[k] = <<>>)

\* C16's case: one request was answered 401 and another 400 while nothing was
\* registered or enqueued
C16_witness ==
    /\ session["k2"].pc = "UNAUTHORIZED"
    /\ session["k3"].pc = "BAD_REQUEST"
    /\ \A k \in LocalConns : ~InRegistry(k) /\ outq[k] = <<>>

Ended(k) == session[k].pc \in {"writer_ended", "reader_ended"}

\* C17: session teardown: when either the reader or the writer of a session
\* terminates, the other is cancelled and the session's connection id is then
\* removed from both registry maps; every session that ends is eventually
\* unregistered and no closed session remains in the registry.
C17_SessionTeardown ==
    /\ [][\A k \in LocalConns :
            (Ended(k) /\ session'[k] # session[k]) =>
                /\ session'[k].pc = "closing"
                /\ ~session'[k].rx
                /\ sending'[k] = Idle]_vars
    /\ [][\A k \in LocalConns :
            (session[k].pc = "closing" /\ session'[k] # session[k]) =>
                session'[k].pc = "closed" /\ ~InRegistry(k)']_vars
    /\ [](\A k \in LocalConns : session[k].pc = "closed" => ~InRegistry(k))
    /\ \A k \in LocalConns : Ended(k) ~> (session[k].pc = "closed" /\ ~InRegistry(k))

\* C17's case: one session ended with its writer, the other with its reader
\* while a send_message call was in flight, and both are unregistered
C17_witness ==
    /\ \A k \in LocalConns : session[k].pc = "closed" /\ ~InRegistry(k)
    /\ \E sid \in DOMAIN results : results[sid].status # "Ok"
    /\ \E k \in LocalConns : Len(outq[k]) > 1

\* a step that enqueues exactly one frame, of the given type, on k's queue and
\* leaves every other queue as it was
OneReply(k, type) ==
    /\ Len(outq'[k]) = Len(outq[k]) + 1
    /\ SubSeq(outq'[k], 1, Len(outq[k])) = outq[k]
    /\ outq'[k][Len(outq'[k])].type = type
    /\ \A j \in DOMAIN outq \ {k} : outq'[j] = outq[j]

Frame(kind) == [kind |-> kind, content |-> [chars |-> 0, len |-> 0]]

\* a step in which a send_message call of session k returns an error
SendFails(k) ==
    \E sid \in DOMAIN results' \ DOMAIN results :
        results'[sid].conn = k /\ results'[sid].status # "Ok"

\* C18: replies to a client frame go to the sender only: for an Active session a
\* ping enqueues exactly one pong, and a failing send_message, an unparseable
\* text frame or a binary frame enqueues exactly one error frame, on the
\* sender's own outbound queue and on no other session's queue.
C18_RepliesToSenderOnly ==
    [][\A k \in LocalConns :
          session[k].pc = "active" =>
             /\ ProcessClientMessage(k, Frame("ping")) => OneReply(k, "pong")
             /\ ProcessClientMessage(k, Frame("unparseable")) => OneReply(k, "error")
             /\ ProcessClientMessage(k, Frame("binary")) => OneReply(k, "error")
             /\ SendFails(k) => OneReply(k, "error")]_vars

\* C18's case: two Active sessions of one channel; one was answered a pong, the
\* other an error frame for its failed send_message, and neither holds the
\* other's reply
C18_witness ==
    /\ \A k \in LocalConns : session[k].pc = "active" /\ session[k].channel_id = 1
    /\ \E sid \in DOMAIN results :
          /\ results[sid].conn = "k2"
          /\ results[sid].status # "Ok"
          /\ outq["k2"] = <<ConnectedFrame(1), ErrorFrame(results[sid].status)>>
    /\ outq["k3"] = <<ConnectedFrame(1), PongFrame>>

C20_WrittenChannelExists ==
    [][/\ \A r \in messages_by_channel' \ messages_by_channel :
             r.channel_id \in channels
       /\ \A r \in messages_by_user' \ messages_by_user :
             r.channel_id \in channels]_vars

(***************************************************************************)
(* Message store: immutability and history.                                *)
(***************************************************************************)
\* C21: stored messages are append-only and immutable: once send has written a
\* message, no later operation, including a later send to the same channel from
\* any instance, changes or replaces that message's content, user, channel or
\* timestamp.
C21_StoredMessagesImmutable ==
    [][/\ messages_by_channel \subseteq messages_by_channel'
       /\ messages_by_user \subseteq messages_by_user']_vars

\* C22: history(channel, limit, before) returns only messages of that channel,
\* newest first, at most limit of them, and when before is given only messages
\* strictly older than before (a message whose timestamp equals before is not
\* returned).
C22_HistoryStrictlyBefore ==
    \A ch \in Channels : \A limit \in 1..3 :
        \A before \in {<<>>} \cup {<<t>> : t \in 0..MaxClock} :
            LET h == FindByChannel(messages_by_channel, ch, limit, before)
            IN  /\ Len(h) <= limit
                /\ \A n \in 1..Len(h) : h[n].channel_id = ch
                /\ \A n \in 1..Len(h) : \A o \in 1..Len(h) :
                      n < o => h[n].id > h[o].id /\ h[n].timestamp >= h[o].timestamp
                /\ before # <<>> =>
                      \A n \in 1..Len(h) : h[n].timestamp < before[1]

(***************************************************************************)
(* Restarts of one instance's fan-out consumer: the group's committed      *)
(* offsets (enable.auto.commit) and auto.offset.reset = latest.            *)
(***************************************************************************)
\* restarts of the instance
MaxRestarts == 1

StartPos(i, t) == IF t \in DOMAIN started[i].pos THEN started[i].pos[t] ELSE 0

\* enable.auto.commit, every auto.commit.interval.ms: the position of each
\* topic the consumer has taken records from becomes the group's committed offset
AutoCommit(i) ==
    /\ \E t \in DOMAIN log : offset[i][t] > StartPos(i, t)
    /\ LET g == group_id[i]
       IN  committed' = [committed EXCEPT ![g] =
              [t \in DOMAIN committed[g] \cup
                        {u \in DOMAIN log : offset[i][u] > StartPos(i, u)} |->
                  IF offset[i][t] > StartPos(i, t) THEN offset[i][t]
                  ELSE committed[g][t]]]
    /\ committed' # committed
    /\ UNCHANGED <<sharder, busVars, storeVars, registryVars, outq, sessionVars,
                   calls, regop, hist, replicaVars, started, identityVars, lockVars>>

\* the process of instance i exits and is started again: its sessions and its
\* registry are gone, and KafkaEventConsumer::new subscribes under the same
\* group.id; each topic is read from the group's committed offset and, where
\* the group has none, from the end (auto.offset.reset = latest)
Restart(i) ==
    /\ started[i].n <= MaxRestarts
    /\ LET g   == group_id[i]
           pos == [t \in DOMAIN log |->
                      IF t \in DOMAIN committed[g] THEN committed[g][t]
                      ELSE Len(log[t])]
       IN  /\ offset' = [offset EXCEPT ![i] = pos]
           /\ started' = [started EXCEPT ![i] =
                 [n |-> @.n + 1, published |-> PublishedCount(log), pos |-> pos]]
    /\ consumer' = [consumer EXCEPT ![i] = Polling]
    /\ connections' = [connections EXCEPT ![i] = EmptyMap]
    /\ channel_connections' = [channel_connections EXCEPT ![i] = EmptyMap]
    /\ session' = [k \in DOMAIN session |->
          IF ConnInstance(k) = i /\ session[k].pc # "none"
          THEN [session[k] EXCEPT !.pc = "closed", !.rx = FALSE]
          ELSE session[k]]
    /\ sending' = [k \in DOMAIN sending |->
          IF ConnInstance(k) = i THEN Idle ELSE sending[k]]
    /\ UNCHANGED <<sharder, log, assignment, group_id, storeVars, outq, sends,
                   results, calls, regop, hist, replicaVars, committed, identityVars, lockVars>>

NextRestart ==
    \/ \E k \in LocalConns : Upgrade(k, 1)
    \/ BusPublish(1)
    \/ \E t \in DOMAIN log : ConsumerPoll(Local, t)
    \/ ConsumerBroadcast(Local)
    \/ AutoCommit(Local)
    \/ Restart(Local)

SpecRestart == InitConsumer /\ [][NextRestart]_vars

\* C23: the fan-out consumer does not replay old traffic: after an instance
\* starts (or restarts) its consumer, no session on it receives a new_message
\* for an event that was published before that consumer subscribed.
C23_NoReplayAfterRestart ==
    [][\A i \in Instances :
          (BroadcastStep(i) /\ outq' # outq) =>
              RecordOf(consumer[i].frame.of_event).seq > started[i].published]_vars



(***************************************************************************)
(* The replica under redelivery (SpecLoops).                               *)
(***************************************************************************)
\* the user consumer passes one record in this step
UserStep == user_consumer'.offset = user_consumer.offset + 1
\* record n was decoded and its handler returned Ok
UserHandled(c, n) == \A reason \in {"input", "database"} : <<n, reason>> \notin c.skipped

\* C24: replica idempotence: when UserCreated(u) is applied a second time right
\* after it was applied, the replica is what it was after the first time (one
\* row of u with the same username, created_at and updated_at); UserDeleted(u)
\* handled when the replica has no row of u succeeds whenever the database
\* answers and leaves the replica unchanged.
C24_ReplicaIdempotence ==
    [][UserStep =>
         LET n == user_consumer'.offset
             r == user_events[n]
         IN  /\ (/\ n >= 2
                 /\ WellFormedUser(r)
                 /\ r.event_type = "user_created"
                 /\ user_events[n - 1] = r
                 /\ UserHandled(user_consumer', n - 1)
                 /\ UserHandled(user_consumer', n))
                => /\ user_replica' = user_replica
                   /\ ParseUuid(r.user_id).id \in DOMAIN user_replica'
                   /\ user_replica'[ParseUuid(r.user_id).id].username = r.username
                   /\ user_replica'[ParseUuid(r.user_id).id].updated_at = r.created_at
             /\ (/\ ProcessMessage(r, UserEventTypes) = "ok"
                 /\ r.event_type = "user_deleted"
                 /\ ParseUuid(r.user_id).ok
                 /\ ParseUuid(r.user_id).id \notin DOMAIN user_replica)
                => /\ <<n, "input">> \notin user_consumer'.skipped
                   /\ user_replica' = user_replica]_vars

\* UserDeleted(uA) was handled on an empty replica, then UserCreated(uA) twice
C24_witness ==
    /\ user_consumer.offset = 3
    /\ \A n \in 1..3 : UserHandled(user_consumer, n)
    /\ user_events[1].event_type = "user_deleted"
    /\ user_events[2].event_type = "user_created"
    /\ user_events[3] = user_events[2]
    /\ DOMAIN user_replica = {"uA"}


\* C25: UserUpdated(u) handled when the replica has a row of u sets the row's
\* username and updated_at to the event's and keeps its created_at; handled
\* when there is no row of u, it inserts a row whose created_at is the current
\* instant.
C25_UpdatedKeepsCreatedAt ==
    [][UserStep =>
         LET n  == user_consumer'.offset
             r  == user_events[n]
             id == ParseUuid(r.user_id).id
         IN  (/\ WellFormedUser(r)
              /\ r.event_type = "user_updated"
              /\ UserHandled(user_consumer', n))
             => /\ id \in DOMAIN user_replica'
                /\ user_replica'[id] =
                      [username |-> r.username,
                       created_at |-> IF id \in DOMAIN user_replica
                                      THEN user_replica[id].created_at ELSE now,
                       updated_at |-> r.updated_at]]_vars

\* UserCreated(uA, bob) then UserUpdated(uA, eve) were handled
C25_witness ==
    /\ user_consumer.offset = 2
    /\ \A n \in 1..2 : UserHandled(user_consumer, n)
    /\ user_events[1].event_type = "user_created"
    /\ user_events[2].event_type = "user_updated"
    /\ "uA" \in DOMAIN user_replica
    /\ user_replica["uA"] = [username |-> <<"e", "v", "e">>, created_at |-> 1,
                             updated_at |-> 2]


(***************************************************************************)
(* The replica consumer across restarts: the group's committed offset on   *)
(* the user-events topic, redelivery of what was consumed after the last   *)
(* commit, and handlers that fail (SpecRedelivery).                        *)
(***************************************************************************)
UserTopic == <<"user-events", 0>>

\* events of user uA as the identity service publishes them
UserEventsOf ==
    {r \in UserRecords : WellFormedUser(r)}

\* enable.auto.commit = true: the position of the user consumer is stored for
\* its group
UserAutoCommit ==
    /\ committed' = [committed EXCEPT ![group_id[Local]] =
                        MapInsert(@, UserTopic, user_consumer.offset)]
    /\ committed' # committed
    /\ UNCHANGED <<sharder, busVars, storeVars, registryVars, outq, sessionVars,
                   calls, regop, hist, replicaVars, started, identityVars, lockVars>>

\* the process is started again: UserEventsConsumer::new subscribes under the
\* same group.id and reads from the group's committed offset and, where the
\* group has none, from the beginning (auto.offset.reset = earliest); the
\* replica table is kept
UserRestart ==
    /\ started[Local].n <= MaxRestarts
    /\ started' = [started EXCEPT ![Local].n = @ + 1]
    /\ user_consumer' =
          [pc |-> "poll",
           offset |-> IF UserTopic \in DOMAIN committed[group_id[Local]]
                      THEN committed[group_id[Local]][UserTopic] ELSE 0,
           skipped |-> user_consumer.skipped]
    /\ UNCHANGED <<sharder, busVars, storeVars, registryVars, outq, sessionVars,
                   calls, regop, hist, user_events, user_replica, committed, identityVars, lockVars>>

NextRedelivery ==
    \/ Len(user_events) < MaxLoopRecords /\ \E r \in UserEventsOf : UserBusRecord(r)
    \/ UserConsumerPoll
    \/ UserAutoCommit
    \/ UserRestart

\* the stream keeps yielding records while there are records to yield
SpecRedelivery == InitLoops /\ [][NextRedelivery]_vars /\ WF_vars(UserConsumerPoll)

\* UserDeleted(uA) is the last event of the log and was delivered
DeletedDelivered ==
    /\ user_events # <<>>
    /\ user_events[Len(user_events)].event_type = "user_deleted"
    /\ user_consumer.offset = Len(user_events)

\* C26: once UserDeleted(u) was delivered to the replica consumer as the last
\* event of u in the log, the replica eventually holds no row of u (or the log
\* has grown), however often earlier events of u were delivered again.
C26_DeletedEventuallyGone ==
    DeletedDelivered ~>
        \/ "uA" \notin DOMAIN user_replica
        \/ user_events[Len(user_events)].event_type # "user_deleted"


(***************************************************************************)
(* The identity service (user-service): UserService over the users table   *)
(* and the user-events producer, with the replica consumer of the chat     *)
(* service reading what it publishes (SpecIdentity).                       *)
(***************************************************************************)
MaxRequestCalls == 3

IdentityIds == {"uA", "uB"}
Usernames == {<<"b", "o", "b">>, <<"e", "v", "e">>}
Emails == {"bob@x.io", "eve@x.io"}
\* CreateUserCommand and UpdateUserCommand (an absent field is <<>>)
CreateCommands == [username : Usernames, email : Emails, password : {"pw"}]
UpdateCommands ==
    [username : {<<>>} \cup {<<n>> : n \in Usernames},
     email : {<<>>, <<"eve@x.io">>},
     password : {<<>>}]

\* everything the identity service does not touch
chatVars == <<sharder, busVars, channels, messages_by_channel, messages_by_user,
              registryVars, outq, sessionVars, calls, regop, hist, groupVars,
              lockVars>>

\* PasswordHasher::hash and PasswordHasher::verify (argon2)
Hash(password) == <<"argon2", password>>
Verify(password, hash) == hash = Hash(password)

\* a users table without unique constraints
Violations_None(rows, id, user) == {}

\* the unique constraints of the users table that a write of user under id
\* violates
Violations(rows, id, user) ==
    {c \in {"users_username_key", "users_email_key"} :
        \E o \in DOMAIN rows \ {id} :
            \/ c = "users_username_key" /\ rows[o].username = user.username
            \/ c = "users_email_key" /\ rows[o].email = user.email}

\* the map_err of create and update: the violated constraint named by the database
ConstraintError(c) ==
    IF c = "users_username_key" THEN "UsernameAlreadyExists" ELSE "EmailAlreadyExists"

\* impl From<UserError> for ApiError, then IntoResponse
StatusOf(result) ==
    CASE result \in {"NotFound", "NotFoundByUsername"} -> 404
      [] result \in {"UsernameAlreadyExists", "EmailAlreadyExists"} -> 409
      [] result = "InvalidCredentials" -> 401
      [] OTHER -> 500

\* a repository error that is ignored
OnRepositoryError_Continue == "publish"

\* repository.create(user).await? (and update, delete): the error is returned
OnRepositoryError == "return"

\* calls made so far
RequestCalls == req["r1"].n + req["r2"].n

\* the call of request task r ends with an error of the repository
Fail(r, op, id, user, result, n) ==
    /\ req' = [req EXCEPT ![r] =
                  IF OnRepositoryError = "return"
                  THEN [IdIdle EXCEPT !.result = result, !.n = n]
                  ELSE [IdIdle EXCEPT !.pc = OnRepositoryError, !.op = op, !.id = id,
                                      !.user = user, !.result = result, !.n = n]]
    /\ commits' = commits

\* the repository call of request task r returned Ok
Stored(r, op, id, user, n) ==
    /\ req' = [req EXCEPT ![r] =
                  [IdIdle EXCEPT !.pc = "publish", !.op = op, !.id = id, !.user = user,
                                 !.result = "ok", !.n = n]]
    /\ commits' = Append(commits, [op |-> op, id |-> id, username |-> user.username,
                                   email |-> user.email])

\* create_user up to and including repository.create: INSERT INTO users
CreateUser(r, command) ==
    /\ req[r].pc = "idle"
    /\ RequestCalls < MaxRequestCalls
    /\ \E id \in IdentityIds \ minted, t \in now..MaxClock :
          LET user == [username |-> command.username, email |-> command.email,
                       password_hash |-> Hash(command.password), created_at |-> t]
              v    == Violations(users, id, user)
          IN  /\ minted' = minted \cup {id}
              /\ now' = t
              /\ IF v = {}
                 THEN users' = MapInsert(users, id, user) /\ Stored(r, "create", id, user, req[r].n + 1)
                 ELSE /\ users' = users
                      /\ \E c \in v : Fail(r, "create", id, user, ConstraintError(c), req[r].n + 1)
    /\ UNCHANGED <<chatVars, replicaVars>>

\* update_user up to repository.update: find_by_id, then the fields of the
\* command are written into the copy that was read
UpdateUserFind(r, id, command) ==
    /\ req[r].pc = "idle"
    /\ RequestCalls < MaxRequestCalls
    /\ IF id \notin DOMAIN users
       THEN Fail(r, "update", id, NoUser, "NotFound", req[r].n + 1)
       ELSE /\ commits' = commits
            /\ req' = [req EXCEPT ![r] =
                  [IdIdle EXCEPT !.pc = "update", !.op = "update", !.id = id,
                         !.n = req[r].n + 1,
                         !.user = [users[id] EXCEPT
                            !.username = IF command.username = <<>> THEN @
                                         ELSE command.username[1],
                            !.email = IF command.email = <<>> THEN @
                                      ELSE command.email[1]]]]
    /\ UNCHANGED <<chatVars, replicaVars, now, users, minted>>

\* repository.update(user): UPDATE users SET username, email, password_hash
\* WHERE id; no row matched is NotFound
UpdateUserStore(r) ==
    /\ req[r].pc = "update"
    /\ LET id   == req[r].id
           user == req[r].user
           v    == Violations(users, id, user)
       IN  IF v # {}
           THEN /\ users' = users
                /\ \E c \in v : Fail(r, "update", id, user, ConstraintError(c), req[r].n)
           ELSE IF id \notin DOMAIN users
           THEN users' = users /\ Fail(r, "update", id, user, "NotFound", req[r].n)
           ELSE /\ users' = [users EXCEPT ![id].username = user.username,
                                          ![id].email = user.email,
                                          ![id].password_hash = user.password_hash]
                /\ Stored(r, "update", id, user, req[r].n)
    /\ UNCHANGED <<chatVars, replicaVars, now, minted>>

\* delete_user up to and including repository.delete: DELETE FROM users WHERE id
DeleteUser(r, id) ==
    /\ req[r].pc = "idle"
    /\ RequestCalls < MaxRequestCalls
    /\ IF id \notin DOMAIN users
       THEN users' = users /\ Fail(r, "delete", id, NoUser, "NotFound", req[r].n + 1)
       ELSE users' = MapRemove(users, id) /\ Stored(r, "delete", id, NoUser, req[r].n + 1)
    /\ UNCHANGED <<chatVars, replicaVars, now, minted>>

\* UserCreatedEvent::new / UserUpdatedEvent::new / UserDeletedEvent::new and
\* their UserEventMessage; t is the reading of Utc::now()
UserEventOf(op, id, user, t) ==
    IF op = "create"
    THEN [event_type |-> "user_created", event_id |-> 0, user_id |-> UuidToString(id),
          username |-> user.username, email |-> user.email,
          created_at |-> user.created_at]
    ELSE IF op = "update"
    THEN [event_type |-> "user_updated", event_id |-> 0, user_id |-> UuidToString(id),
          username |-> user.username, email |-> user.email, updated_at |-> t]
    ELSE [event_type |-> "user_deleted", event_id |-> 0, user_id |-> UuidToString(id),
          deleted_at |-> t]

\* event_publisher.publish_user_*(&event): the record is appended to the topic
\* or the send fails after its retries; the error is logged and the call
\* returns Ok either way
PublishUserEvent(r) ==
    /\ req[r].pc = "publish"
    /\ \E sent \in BOOLEAN :
          user_events' =
             IF sent
             THEN Append(user_events, UserEventOf(req[r].op, req[r].id, req[r].user, now))
             ELSE user_events
    /\ req' = [req EXCEPT ![r] = [IdIdle EXCEPT !.result = req[r].result,
                                                !.attempts = req[r].attempts + 1,
                                                !.n = req[r].n]]
    /\ UNCHANGED <<chatVars, user_consumer, user_replica, now, users, minted, commits>>

\* the body of POST /authenticate
Credentials == [username : Usernames \cup {<<"e", "!">>}, password : {"pw", "wrong"}]

\* ApiError::Unauthorized("Invalid credentials".to_string())
Unauthorized == [status |-> 401, message |-> "Invalid credentials"]

\* authenticate with the error of get_user_by_username passed to ApiError::from
Authenticate_NotFound(rows, body) ==
    IF ~UsernameNew(body.username) THEN Unauthorized
    ELSE IF \A o \in DOMAIN rows : rows[o].username # body.username
    THEN [status |-> StatusOf("NotFoundByUsername"), message |-> "User not found"]
    ELSE LET o == CHOOSE o \in DOMAIN rows : rows[o].username = body.username
         IN  IF Verify(body.password, rows[o].password_hash)
             THEN [status |-> 200, message |-> "token"]
             ELSE Unauthorized

\* authenticate: Username::new, get_user_by_username, Authenticator::authenticate
Authenticate(rows, body) ==
    IF ~UsernameNew(body.username) THEN Unauthorized
    ELSE IF \A o \in DOMAIN rows : rows[o].username # body.username
    THEN Unauthorized
    ELSE LET o == CHOOSE o \in DOMAIN rows : rows[o].username = body.username
         IN  IF Verify(body.password, rows[o].password_hash)
             THEN [status |-> 200, message |-> "token"]
             ELSE Unauthorized

\* POST /authenticate handled by request task r
AuthenticateUser(r, body) ==
    /\ req[r].pc = "idle"
    /\ RequestCalls < MaxRequestCalls
    /\ req' = [req EXCEPT ![r] =
                  [IdIdle EXCEPT !.op = "authenticate", !.n = req[r].n + 1,
                                 !.response = Authenticate(users, body)]]
    /\ UNCHANGED <<chatVars, replicaVars, now, users, minted, commits>>

NextIdentity ==
    \/ \E r \in Requests, command \in CreateCommands : CreateUser(r, command)
    \/ \E r \in Requests, id \in IdentityIds, command \in UpdateCommands :
          UpdateUserFind(r, id, command)
    \/ \E r \in Requests : UpdateUserStore(r)
    \/ \E r \in Requests, id \in IdentityIds : DeleteUser(r, id)
    \/ \E r \in Requests : PublishUserEvent(r)
    \/ \E r \in Requests, body \in Credentials : AuthenticateUser(r, body)
    \/ UserConsumerPoll

SpecIdentity == InitLoops /\ [][NextIdentity]_vars


\* no identity call is in flight and the replica consumer has passed every
\* record of the topic
Settled ==
    /\ \A r \in Requests : req[r].pc = "idle"
    /\ user_consumer.offset = Len(user_events)

\* C27: the replica is eventually consistent with the identity store: whenever
\* the identity service is not mutating and the replica consumer has processed
\* every event of the topic, the replica holds exactly the users of the
\* identity store, each with its current username.
C27_ReplicaMatchesStore ==
    Settled =>
        /\ DOMAIN user_replica = DOMAIN users
        /\ \A u \in DOMAIN users : user_replica[u].username = users[u].username


\* some other row of the users table has the username or the email of user
Duplicates(id, user) ==
    \E o \in DOMAIN users \ {id} :
        users[o].username = user.username \/ users[o].email = user.email

\* the call of request task r was refused with 409 and wrote nothing
Refused(r) ==
    /\ req'[r].pc = "idle"
    /\ req'[r].result \in {"UsernameAlreadyExists", "EmailAlreadyExists"}
    /\ StatusOf(req'[r].result) = 409
    /\ users' = users

\* C28: no two users of the identity store share a username or an email
\* address; a create or an update that would duplicate one fails with
\* UsernameAlreadyExists or EmailAlreadyExists (HTTP 409) and leaves the store
\* unchanged.
C28_UniqueUsernameAndEmail ==
    /\ [](\A a, b \in DOMAIN users :
             a # b => /\ users[a].username # users[b].username
                      /\ users[a].email # users[b].email)
    /\ [][\A r \in Requests :
            /\ \A command \in CreateCommands :
                  (CreateUser(r, command) /\ Duplicates("none", command)) => Refused(r)
            /\ (UpdateUserStore(r) /\ Duplicates(req[r].id, req[r].user)) => Refused(r)]_vars

\* a call was refused for a duplicate while two users exist
C28_witness ==
    /\ Cardinality(DOMAIN users) = 2
    /\ \E r \in Requests : req[r].result \in {"UsernameAlreadyExists", "EmailAlreadyExists"}


\* request task r attempts a publish in this step
PublishAttempt(r) == req[r].pc = "publish" /\ req'[r].pc = "idle"

\* the record that the call of request task r is about to publish
EventOfCall(r) == UserEventOf(req[r].op, req[r].id, req[r].user, now)

\* C29: the identity service publishes a lifecycle event only after the store
\* mutation of the same call succeeded: a call refused by the repository
\* (duplicate, update or delete of a missing user) returns without a publish
\* attempt and leaves the topic as it was, every record put on the topic is the
\* event of a call whose mutation is in the store, and each call whose
\* mutation succeeded makes exactly one publish attempt, of the event of its
\* kind, before it returns.
C29_PublishAfterStore ==
    [][\A r \in Requests :
          /\ PublishAttempt(r)
                => /\ req[r].result = "ok"
                   /\ req[r].attempts = 0 /\ req'[r].attempts = 1
                   /\ user_events' \in {user_events, Append(user_events, EventOfCall(r))}
                   /\ users' = users
          /\ (req[r].pc # "publish" /\ req'[r].pc = "publish")
                => /\ users' # users \/ req[r].pc = "update"
                   /\ req'[r].result = "ok" /\ req'[r].attempts = 0
          /\ (req'[r] # req[r] /\ req'[r].pc = "idle" /\ req'[r].result # "ok")
                => /\ req'[r].attempts = 0
                   /\ user_events' = user_events
                   /\ users' = users
          /\ (user_events' # user_events) => \E q \in Requests : PublishAttempt(q)]_vars

\* a call on a missing user was refused, and a delete succeeded and published UserDeleted
C29_witness ==
    /\ \E r \in Requests : req[r].pc = "idle" /\ req[r].result = "NotFound"
    /\ \E r \in Requests : req[r].pc = "idle" /\ req[r].result = "ok" /\ req[r].attempts = 1
    /\ \E n \in 1..Len(user_events) : user_events[n].event_type = "user_deleted"


\* the credentials name a user of the store
Exists(body) == \E o \in DOMAIN users : users[o].username = body.username
\* the credentials name a user of the store and carry another password
WrongPassword(body) ==
    \E o \in DOMAIN users :
        users[o].username = body.username /\ ~Verify(body.password, users[o].password_hash)

\* C30: no user enumeration at login: authenticate answers a username that
\* does not exist and an existing username with a wrong password with the same
\* response, 401 Invalid credentials.
C30_NoUserEnumeration ==
    [][\A r \in Requests : \A body \in Credentials :
          (AuthenticateUser(r, body) /\ (~Exists(body) \/ WrongPassword(body)))
             => req'[r].response = [status |-> 401, message |-> "Invalid credentials"]]_vars

\* with bob in the store, one login of bob succeeded and one login of eve failed
C30_witness ==
    /\ \E o \in DOMAIN users : users[o].username = <<"b", "o", "b">>
    /\ \A o \in DOMAIN users : users[o].username # <<"e", "v", "e">>
    /\ \E r \in Requests : req[r].op = "authenticate" /\ req[r].response.status = 200
    /\ \E r \in Requests : req[r].op = "authenticate" /\ req[r].response.status = 401


\* sequence a can be obtained from sequence b by leaving elements out
RECURSIVE IsSubsequence(_, _)
IsSubsequence(a, b) ==
    IF a = <<>> THEN TRUE
    ELSE IF b = <<>> THEN FALSE
    ELSE IF Head(a) = Head(b) THEN IsSubsequence(Tail(a), Tail(b))
    ELSE IsSubsequence(a, Tail(b))

\* what an event of the topic says about the write it reports
WriteOfEvent(e) ==
    [op |-> IF e.event_type = "user_created" THEN "create"
            ELSE IF e.event_type = "user_updated" THEN "update" ELSE "delete",
     id |-> ParseUuid(e.user_id).id,
     username |-> IF e.event_type = "user_deleted" THEN NoUser.username ELSE e.username,
     email |-> IF e.event_type = "user_deleted" THEN NoUser.email ELSE e.email]

\* the events of user u on the topic, as writes, in topic order
EventsOfUser(u) ==
    LET OfUser(e) == ParseUuid(e.user_id).id = u
        es == SelectSeq(user_events, OfUser)
    IN  [n \in 1..Len(es) |-> WriteOfEvent(es[n])]

\* the writes of user u the store has accepted, in commit order
CommitsOfUser(u) ==
    LET OfUser(c) == c.id = u
    IN  SelectSeq(commits, OfUser)

\* C31: per-user event order is preserved: for each user, the events of that
\* user on the topic are, in topic order, the writes of that user the identity
\* store accepted, in commit order (a write whose publish failed is left
\* out), for any interleaving of concurrent requests on that user.
C31_PerUserEventOrder ==
    \A u \in IdentityIds : IsSubsequence(EventsOfUser(u), CommitsOfUser(u))


(***************************************************************************)
(* Two partial updates of one user (SpecPartialUpdates): request task r1   *)
(* creates bob and then sets the username, request task r2 sets the email. *)
(***************************************************************************)
PartialCommand(r) ==
    IF r = "r1" THEN [username |-> <<<<"e", "v", "e">>>>, email |-> <<>>, password |-> <<>>]
    ELSE [username |-> <<>>, email |-> <<"eve@x.io">>, password |-> <<>>]

NextPartialUpdates ==
    \/ /\ users = EmptyMap
       /\ CreateUser("r1", [username |-> <<"b", "o", "b">>, email |-> "bob@x.io",
                            password |-> "pw"])
    \/ \E r \in Requests, id \in DOMAIN users :
          req[r].n = (IF r = "r1" THEN 1 ELSE 0) /\ UpdateUserFind(r, id, PartialCommand(r))
    \/ \E r \in Requests : UpdateUserStore(r)
    \/ \E r \in Requests : PublishUserEvent(r)
    \/ UserConsumerPoll

SpecPartialUpdates == InitLoops /\ [][NextPartialUpdates]_vars


\* both partial updates have returned Ok
BothUpdated ==
    /\ \A r \in Requests : req[r].pc = "idle" /\ req[r].result = "ok"
    /\ req["r1"].n = 2
    /\ req["r2"].n = 1

\* C40: two concurrent partial updates of the same user that change different
\* fields (one the username, the other the email) are both preserved: after
\* both returned success the stored user carries both new values.
C40_PartialUpdatesPreserved ==
    BothUpdated =>
        \A id \in DOMAIN users :
            /\ users[id].username = <<"e", "v", "e">>
            /\ users[id].email = "eve@x.io"


(***************************************************************************)
(* The constructor of the shard router (SpecShard).                        *)
(***************************************************************************)
\* n is 1, 2, 4, 8, ...
PowerOfTwo(n) == \E k \in 0..U32Bits : n = Pow2(k)

\* C32: TopicSharder::new fails with ZeroShards when N = 0, with NotPowerOfTwo
\* when N > 0 is not a power of two, and with EmptyTopicPrefix when N is a
\* power of two and the prefix is empty; it succeeds for every power-of-two N
\* with a non-empty prefix; the router a process holds is one of these results.
C32_ConstructorErrors ==
    /\ \A n \in 0..MaxNumShards, prefix \in Prefixes :
          LET r == TopicSharderNew(n, prefix)
          IN  /\ n = 0 => ~r.ok /\ r.err = "ZeroShards"
              /\ (n > 0 /\ ~PowerOfTwo(n)) => ~r.ok /\ r.err = "NotPowerOfTwo"
              /\ (PowerOfTwo(n) /\ prefix = "") => ~r.ok /\ r.err = "EmptyTopicPrefix"
              /\ (PowerOfTwo(n) /\ prefix # "")
                    => r = [ok |-> TRUE, num_shards |-> n, topic_prefix |-> prefix]
    /\ IF sharder.ok
       THEN PowerOfTwo(sharder.num_shards) /\ sharder.topic_prefix # ""
       ELSE sharder.err \in {"ZeroShards", "NotPowerOfTwo", "EmptyTopicPrefix"}

\* a process whose configuration gave a power-of-two shard count and an empty
\* prefix
C32_witness == ~sharder.ok /\ sharder.err = "EmptyTopicPrefix"


(***************************************************************************)
(* Session state machine (SpecSession).                                    *)
(***************************************************************************)
\* Upgrading (the request is being answered), Active (both tasks run),
\* Closing (a task has ended, remove_connection has not returned), Closed
\* (remove_connection returned, or the upgrade was refused)
Phase(k) ==
    CASE session[k].pc \in {"none", "registered"} -> 0
      [] session[k].pc = "active" -> 1
      [] session[k].pc \in {"writer_ended", "reader_ended", "closing"} -> 2
      [] OTHER -> 3

\* C33: each session moves only forward through Upgrading, Active, Closing,
\* Closed, and a client frame is dispatched (send_message calls the message
\* service, ping is answered) only while the session is Active: once the
\* session has started closing, no client frame of it reaches the message
\* service.
C33_DispatchOnlyWhileActive ==
    [][\A k \in LocalConns :
          /\ Phase(k)' >= Phase(k)
          /\ \A msg \in ClientFrames :
                (msg.kind \in {"send_message", "ping"} /\ ProcessClientMessage(k, msg))
                    => Phase(k) = 1]_vars


(***************************************************************************)
(* Live frames and the message store (Spec).                               *)
(***************************************************************************)
\* C34: no session on any instance ever receives a new_message frame whose
\* message id is not already present in the message store (both tables).
C34_FramesAreStored ==
    \A k \in DOMAIN outq : \A a \in NewMessages(outq[k]) :
        /\ \E r \in messages_by_channel : r.id = outq[k][a].id
        /\ HasUserRow(messages_by_user, outq[k][a].user_id, outq[k][a].id)

\* a session of the other instance holds a new_message frame
C34_witness ==
    \E k \in DOMAIN outq :
        /\ NewMessages(outq[k]) # {}
        /\ \E a \in NewMessages(outq[k]) :
              ConnInstance(k) # ConnInstance(results[outq[k][a].of_event].conn)


(***************************************************************************)
(* The start of handle_socket, one statement at a time (SpecUpgrade): the  *)
(* registry call and the send of the connected frame are two steps, and    *)
(* the fan-out consumer is another task of the same runtime.               *)
(***************************************************************************)
\* mpsc::unbounded_channel() and add_connection(connection_id, user_id,
\* channel_id, tx.clone()).await
HandleSocketRegister(k, ch) ==
    /\ session[k].pc = "none"
    /\ session' = [session EXCEPT ![k] = [pc |-> "registered", channel_id |-> ch, rx |-> TRUE]]
    /\ LET i == ConnInstance(k)
           r == AddConnection(connections[i], channel_connections[i], k, ConnUser(k), ch, k)
       IN  /\ connections' = [connections EXCEPT ![i] = r.connections]
           /\ channel_connections' = [channel_connections EXCEPT ![i] = r.channel_connections]
    /\ UNCHANGED <<sharder, busVars, storeVars, outq, sending, sends, results, auxVars>>

\* tx.send(Connected{channel_id}), then the writer and reader tasks are spawned
HandleSocketConnected(k) ==
    /\ session[k].pc = "registered"
    /\ session' = [session EXCEPT ![k].pc = "active"]
    /\ outq' = SenderSend(outq, Open, k, ConnectedFrame(session[k].channel_id))
    /\ UNCHANGED <<sharder, busVars, storeVars, registryVars, sending, sends,
                   results, auxVars>>

NextUpgrade ==
    \/ \E k \in Conns, ch \in Channels : HandleSocketRegister(k, ch)
    \/ \E k \in Conns : HandleSocketConnected(k)
    \/ \E k \in Conns : ClientSendMessage(k)
    \/ \E k \in Conns : SendInsertByChannel(k)
    \/ \E k \in Conns : SendInsertByUser(k)
    \/ \E k \in Conns : SendPublish(k)
    \/ \E i \in Instances, t \in DOMAIN log : ConsumerPoll(i, t)
    \/ \E i \in Instances : ConsumerBroadcast(i)

SpecUpgrade == Init /\ [][NextUpgrade]_vars

\* C35: connected{channel_id} is the first frame on a session's outbound
\* queue: no new_message from a concurrent broadcast is enqueued for the
\* session before its connected frame.
C35_ConnectedIsFirst ==
    \A k \in DOMAIN outq : outq[k] # <<>> => outq[k][1].type = "connected"


(***************************************************************************)
(* The two maps of the registry between calls (SpecRegistry).              *)
(***************************************************************************)
\* how many times connection id k is listed under channel ch
TimesListed(k, ch) ==
    IF ch \in DOMAIN channel_connections[Reg]
    THEN Cardinality({n \in 1..Len(channel_connections[Reg][ch]) :
                         channel_connections[Reg][ch][n] = k})
    ELSE 0

\* C37: whenever no add or remove is in progress, the two registry maps agree:
\* a connection id is listed under channel ch in the channel index exactly
\* when the connections map holds it with channel ch, and every id is listed
\* under at most one channel and at most once.
C37_MapsAgree ==
    RegIdle =>
        \A k \in Conns :
            /\ \A ch \in Channels : Listed(k, ch) <=> k \in Registered(ch)
            /\ Cardinality({ch \in Channels : Listed(k, ch)}) <= 1
            /\ \A ch \in Channels : TimesListed(k, ch) <= 1

\* the same statement for registries on which no id was added twice
MapsAgreeWithoutDuplicateAdd == ~hist.dup => C37_MapsAgree


(***************************************************************************)
(* Broadcasts and remove_connection (SpecRegistry).                        *)
(***************************************************************************)
\* remove(c) has returned and c was not added again
Removed(c) ==
    /\ c \in hist.added
    /\ regop[c] = NoCall
    /\ c \notin DOMAIN connections[Reg]

\* remove(c) is between its two map updates
Removing(c) == regop[c].op = "remove"

\* C36: once remove(c) has returned, no broadcast enqueues a frame on c's
\* queue, and a broadcast that runs between the two map updates of remove(c)
\* completes and still delivers to every other connection of the channel.
C36_RemoveVersusBroadcast ==
    [][\A ch \in Channels : IsBroadcast(ch) =>
          \A c \in Conns :
              /\ Removed(c) => outq'[c] = outq[c]
              /\ Removing(c) =>
                    /\ outq'[c] = outq[c]
                    /\ \A k \in Conns \ {c} :
                          (regop[k] = NoCall /\ k \in Registered(ch) /\ session[k].rx)
                              => /\ Len(outq'[k]) > Len(outq[k])
                                 /\ outq'[k][Len(outq'[k])] = TestFrame(hist'.n)]_vars

\* a broadcast ran while remove(c) was between its two map updates, with c
\* listed before another connection of the channel, which received the frame
C36_witness ==
    /\ hist.last.op = "broadcast"
    /\ \E c \in Conns :
          /\ Removing(c)
          /\ regop[c].channel_id = hist.last.channel_id
          /\ Listed(c, hist.last.channel_id)
          /\ \E k \in Conns \ {c} :
                /\ Listed(k, hist.last.channel_id)
                /\ outq[k] # <<>>
                /\ outq[k][Len(outq[k])] = TestFrame(hist.n)


(***************************************************************************)
(* The registry's locking (SpecLocks): every call of registry.rs taken one *)
(* lock acquisition at a time.  A tokio RwLock queues its acquisitions in  *)
(* FIFO order: the head of the queue is granted as soon as it is           *)
(* compatible with the guards that are held.                               *)
(***************************************************************************)
MaxLockCalls == 3

\* lock.read() / lock.write() is called: the acquisition joins the queue
Acquire(lk, t, mode) == [lk EXCEPT !.queue = Append(@, [task |-> t, mode |-> mode])]
\* the guard is dropped
Release(lk, t) == [lk EXCEPT !.readers = @ \ {t}, !.writer = @ \ {t}]
\* task t holds a guard of lock l
Holds(l, t) == t \in rwlock[l].readers \cup rwlock[l].writer
LockCalls == SumLockCalls(Tasks)
CanStart(t) == task[t].pc = "idle" /\ LockCalls < MaxLockCalls

\* Keeping the connections guard in a variable that lives to the end of
\* add_connection.
DropTemporaryGuard_AtReturn(lk, t) == lk
\* self.connections.write().await.insert(..): the guard is a temporary,
\* dropped at the end of the statement
DropTemporaryGuard(lk, t) == Release(lk, t)

\* the semaphore of lock l hands the lock to the head of its queue
LockGrant(l) ==
    /\ rwlock[l].queue # <<>>
    /\ LET h == Head(rwlock[l].queue)
       IN  /\ rwlock[l].writer = {}
           /\ h.mode = "w" => rwlock[l].readers = {}
           /\ rwlock' = [rwlock EXCEPT ![l] =
                 [readers |-> IF h.mode = "r" THEN @.readers \cup {h.task} ELSE @.readers,
                  writer  |-> IF h.mode = "w" THEN {h.task} ELSE {},
                  queue   |-> Tail(@.queue)]]
    /\ UNCHANGED <<sharder, busVars, storeVars, registryVars, outq, sessionVars,
                   calls, regop, hist, replicaVars, groupVars, identityVars, task>>

\* add_connection(k, user, ch, sender) reaches self.connections.write()
LockAddStart(k, ch) ==
    /\ CanStart(k)
    /\ task' = [task EXCEPT ![k] = [pc |-> "add_insert", channel_id |-> ch, n |-> @.n + 1]]
    /\ rwlock' = [rwlock EXCEPT !["connections"] = Acquire(@, k, "w")]
    /\ UNCHANGED <<sharder, busVars, storeVars, registryVars, outq, sessionVars,
                   calls, regop, hist, replicaVars, groupVars, identityVars>>

\* insert(connection_id, connection), then self.channel_connections.write()
LockAddInsert(k) ==
    /\ task[k].pc = "add_insert"
    /\ Holds("connections", k)
    /\ connections' = [connections EXCEPT ![Reg] =
                          AddInsert(@, k, ConnUser(k), task[k].channel_id, k)]
    /\ rwlock' = [rwlock EXCEPT
                    !["connections"] = DropTemporaryGuard(@, k),
                    !["channel_connections"] = Acquire(@, k, "w")]
    /\ task' = [task EXCEPT ![k].pc = "add_index"]
    /\ UNCHANGED <<sharder, busVars, storeVars, channel_connections, outq,
                   sessionVars, calls, regop, hist, replicaVars, groupVars,
                   identityVars>>

\* entry(channel_id).or_insert_with(Vec::new).push(connection_id); the call
\* returns and drops the guards it still holds
LockAddIndex(k) ==
    /\ task[k].pc = "add_index"
    /\ Holds("channel_connections", k)
    /\ channel_connections' = [channel_connections EXCEPT ![Reg] =
                                  AddIndex(@, k, task[k].channel_id)]
    /\ rwlock' = [l \in LockNames |-> Release(rwlock[l], k)]
    /\ task' = [task EXCEPT ![k].pc = "idle", ![k].channel_id = 0]
    /\ UNCHANGED <<sharder, busVars, storeVars, connections, outq, sessionVars,
                   calls, regop, hist, replicaVars, groupVars, identityVars>>

\* remove_connection(k) reaches self.connections.write()
LockRemoveStart(k) ==
    /\ CanStart(k)
    /\ task' = [task EXCEPT ![k] = [pc |-> "remove_entry", channel_id |-> 0, n |-> @.n + 1]]
    /\ rwlock' = [rwlock EXCEPT !["connections"] = Acquire(@, k, "w")]
    /\ UNCHANGED <<sharder, busVars, storeVars, registryVars, outq, sessionVars,
                   calls, regop, hist, replicaVars, groupVars, identityVars>>

\* remove(&connection_id); with Some(conn) the call goes on to
\* self.channel_connections.write(), with None it returns
LockRemoveEntry(k) ==
    /\ task[k].pc = "remove_entry"
    /\ Holds("connections", k)
    /\ connections' = [connections EXCEPT ![Reg] = RemoveEntry(@, k)]
    /\ IF k \in DOMAIN connections[Reg]
       THEN /\ rwlock' = [rwlock EXCEPT
                            !["connections"] = Release(@, k),
                            !["channel_connections"] = Acquire(@, k, "w")]
            /\ task' = [task EXCEPT ![k].pc = "remove_index",
                                    ![k].channel_id = connections[Reg][k].channel_id]
       ELSE /\ rwlock' = [rwlock EXCEPT !["connections"] = Release(@, k)]
            /\ task' = [task EXCEPT ![k].pc = "idle"]
    /\ UNCHANGED <<sharder, busVars, storeVars, channel_connections, outq,
                   sessionVars, calls, regop, hist, replicaVars, groupVars,
                   identityVars>>

\* conns.retain(..), the empty entry is removed; the call returns
LockRemoveIndex(k) ==
    /\ task[k].pc = "remove_index"
    /\ Holds("channel_connections", k)
    /\ channel_connections' = [channel_connections EXCEPT ![Reg] =
                                  RemoveIndex(@, k, task[k].channel_id)]
    /\ rwlock' = [rwlock EXCEPT !["channel_connections"] = Release(@, k)]
    /\ task' = [task EXCEPT ![k].pc = "idle", ![k].channel_id = 0]
    /\ UNCHANGED <<sharder, busVars, storeVars, connections, outq, sessionVars,
                   calls, regop, hist, replicaVars, groupVars, identityVars>>

\* broadcast_to_channel(ch, frame) reaches self.channel_connections.read()
LockBroadcastStart(b, ch) ==
    /\ CanStart(b)
    /\ task' = [task EXCEPT ![b] = [pc |-> "broadcast_index", channel_id |-> ch, n |-> @.n + 1]]
    /\ rwlock' = [rwlock EXCEPT !["channel_connections"] = Acquire(@, b, "r")]
    /\ UNCHANGED <<sharder, busVars, storeVars, registryVars, outq, sessionVars,
                   calls, regop, hist, replicaVars, groupVars, identityVars>>

\* holding the channel_connections guard, it reaches self.connections.read()
LockBroadcastIndex(b) ==
    /\ task[b].pc = "broadcast_index"
    /\ Holds("channel_connections", b)
    /\ rwlock' = [rwlock EXCEPT !["connections"] = Acquire(@, b, "r")]
    /\ task' = [task EXCEPT ![b].pc = "broadcast_send"]
    /\ UNCHANGED <<sharder, busVars, storeVars, registryVars, outq, sessionVars,
                   calls, regop, hist, replicaVars, groupVars, identityVars>>

\* holding both guards: the loop of sends; the call returns
LockBroadcastSend(b) ==
    /\ task[b].pc = "broadcast_send"
    /\ Holds("connections", b)
    /\ outq' = BroadcastToChannel(connections[Reg], channel_connections[Reg], outq,
                                  Open, task[b].channel_id, TestFrame(LockCalls))
    /\ rwlock' = [l \in LockNames |-> Release(rwlock[l], b)]
    /\ task' = [task EXCEPT ![b].pc = "idle", ![b].channel_id = 0]
    /\ UNCHANGED <<sharder, busVars, storeVars, registryVars, sessionVars,
                   calls, regop, hist, replicaVars, groupVars, identityVars>>

\* get_channel_connection_count(ch) reaches self.channel_connections.read()
LockCountStart(b, ch) ==
    /\ CanStart(b)
    /\ task' = [task EXCEPT ![b] = [pc |-> "count", channel_id |-> ch, n |-> @.n + 1]]
    /\ rwlock' = [rwlock EXCEPT !["channel_connections"] = Acquire(@, b, "r")]
    /\ UNCHANGED <<sharder, busVars, storeVars, registryVars, outq, sessionVars,
                   calls, regop, hist, replicaVars, groupVars, identityVars>>

\* .get(&channel_id).map(|conns| conns.len()).unwrap_or(0); the call returns
LockCountReturn(b) ==
    /\ task[b].pc = "count"
    /\ Holds("channel_connections", b)
    /\ rwlock' = [rwlock EXCEPT !["channel_connections"] = Release(@, b)]
    /\ task' = [task EXCEPT ![b].pc = "idle", ![b].channel_id = 0]
    /\ UNCHANGED <<sharder, busVars, storeVars, registryVars, outq, sessionVars,
                   calls, regop, hist, replicaVars, groupVars, identityVars>>

\* the steps a call takes once it has started
LockStep(t) ==
    \/ LockAddInsert(t)
    \/ LockAddIndex(t)
    \/ LockRemoveEntry(t)
    \/ LockRemoveIndex(t)
    \/ LockBroadcastIndex(t)
    \/ LockBroadcastSend(t)
    \/ LockCountReturn(t)

NextLocks ==
    \/ \E l \in LockNames : LockGrant(l)
    \/ \E k \in Conns, ch \in Channels : LockAddStart(k, ch)
    \/ \E k \in Conns : LockAddInsert(k)
    \/ \E k \in Conns : LockAddIndex(k)
    \/ \E k \in Conns : LockRemoveStart(k)
    \/ \E k \in Conns : LockRemoveEntry(k)
    \/ \E k \in Conns : LockRemoveIndex(k)
    \/ \E b \in Broadcasters, ch \in Channels : LockBroadcastStart(b, ch)
    \/ \E b \in Broadcasters : LockBroadcastIndex(b)
    \/ \E b \in Broadcasters : LockBroadcastSend(b)
    \/ \E b \in Broadcasters, ch \in Channels : LockCountStart(b, ch)
    \/ \E b \in Broadcasters : LockCountReturn(b)

\* the runtime polls every task that can make a step, and a lock that can be
\* handed to the head of its queue is handed over
SpecLocks ==
    /\ InitRegistry
    /\ [][NextLocks]_vars
    /\ \A l \in LockNames : WF_vars(LockGrant(l))
    /\ \A t \in Tasks : WF_vars(LockStep(t))

\* C38: no interleaving of concurrent add, remove, broadcast and
\* connectionsInChannel calls on one registry deadlocks: every call
\* eventually acquires its locks and returns.
C38_EveryCallReturns ==
    \A t \in Tasks : (task[t].pc # "idle") ~> (task[t].pc = "idle")

\* a broadcast holds the channel index and waits for the connections map
\* behind a writer, while another writer waits for the channel index
C38_witness ==
    \E b \in Broadcasters :
        /\ task[b].pc = "broadcast_send"
        /\ ~Holds("connections", b)
        /\ rwlock["connections"].writer # {}
        /\ \E n \in 1..Len(rwlock["channel_connections"].queue) :
              rwlock["channel_connections"].queue[n].mode = "w"


(***************************************************************************)
(* Live order and history order (Spec).                                    *)
(***************************************************************************)
\* C39: live order agrees with history order: every subscriber that receives
\* the new_message frames of two messages of its channel receives them in
\* increasing MessageId order, also when the two messages are sent
\* concurrently by different sessions or instances.
C39_LiveOrderIsIdOrder ==
    \A k \in DOMAIN outq : \A a, b \in NewMessages(outq[k]) :
        (a < b /\ outq[k][a].of_event # outq[k][b].of_event)
            => outq[k][a].id <= outq[k][b].id

=============================================================================
